---- MODULE Spec2Model ----
(***************************************************************************)
(* Model of the price-list backend (src/python/price_list):                *)
(*   - the document state store of backend.py (load_pdf, the readers and   *)
(*     the /api/export handler) with its two locks,                        *)
(*   - the RateLimiter of backend.py,                                      *)
(*   - update_prices of update_pdf.py with the file system it writes to.   *)
(* Each part has its own specification over the shared variable list.      *)
(***************************************************************************)
EXTENDS Integers, Sequences, FiniteSets, TLC

(***************************************************************************)
(* Bounds of the model.                                                    *)
(***************************************************************************)
NThreads == 2

Threads == 1..NThreads

\* Python's None.
None == "None"

\* The documents a client may ask to load (validated absolute paths).
Paths == {"a.pdf", "b.pdf"}

\* prices_cache before any load (None); a price list is a record naming the
\* document it was extracted from.
NonePrices == [src |-> None]

VARIABLES
    \* ---- backend.py globals
    current_pdf_path,   \* backend.current_pdf_path
    prices_cache,       \* backend.prices_cache
    state_lock,         \* holder of backend.state_lock, 0 when free
    load_lock,          \* holder of backend.load_lock, 0 when free
    \* ---- one request thread each
    pc,                 \* position of the thread in its handler
    arg,                \* load_pdf's pdf_path argument
    loc,                \* load_pdf's local prices / the reader's first read
    pdf_path_l,         \* the export handler's local pdf_path
    ret,                \* what the last finished call returned
    \* ---- history
    lastPub,            \* path of the load that published last
    \* ---- RateLimiter
    clock,              \* time.time(), in ticks
    requests,           \* RateLimiter.requests: endpoint -> list of timestamps
    rl_pc,              \* position of the thread in is_allowed
    rl_now,             \* is_allowed's local now
    rl_key,             \* is_allowed's endpoint argument
    calls,              \* history: the finished is_allowed calls, in lock order
    \* ---- update_prices and the files it works on
    u_pc,               \* position inside update_prices
    u_in,               \* input_pdf_path
    u_out,              \* output_pdf_path
    u_reqs,             \* price_updates
    u_res,              \* results: success, updated, errors
    links,              \* symbolic links: name -> target, None for a plain name
    fs,                 \* content of each plain file name
    fs0,                \* history: fs when update_prices was called
    opened,             \* history: fitz.open was called
    doc_ops,            \* history: the operations done on the open document
    io,                 \* history: the file operations performed so far
    \* ---- _replace_with_retry
    platform,           \* sys.platform
    rr_pc,              \* where the call stands
    attempt,            \* loop variable of 'for attempt in range(...)'
    delay,              \* delay, in tenths of a second
    last_error,         \* last_error
    rr_log,             \* history: the os.replace and time.sleep calls made
    rr_out,             \* how the call ended
    \* ---- validate_pdf_path
    pv_in,              \* the argument path
    pv_out,             \* the value returned or the error raised
    \* ---- POST /api/shutdown
    shutdown_token,     \* the global shutdown_token
    server_instance,    \* the global server_instance
    server_state,       \* what serve_forever is doing
    sh_pc,              \* position of the handler in the shutdown branch
    sh_reqs,            \* history: the shutdown requests taken up, with their answers
    sh_threads,         \* requests whose delayed_shutdown thread is sleeping
    sh_log,             \* history: responses, thread starts, shutdown() calls
    \* ---- CORS and the requests answered with it
    co_req,             \* the request in hand: Origin header, route, validity
    co_pc,              \* position of the handler
    co_doc,             \* what the requests did: document loaded, output written
    co_resp,            \* the response: _get_cors_origin's result, headers sent
    \* ---- the output name of an export
    yn_in,              \* input_name
    yn_out,             \* output_name, empty before it is derived
    \* ---- format_new_price
    fp_in,              \* new_value and has_hr_suffix
    fp_text,            \* the formatted text, empty before the call
    \* ---- extract_prices
    ex_doc,             \* the pages of the document, each the texts of its spans
    ex_pc,              \* "idle", "scan", "done"
    ex_page,            \* the page in hand, counted from 1
    ex_span,            \* the span in hand on that page
    price_id,           \* the next id
    prices,             \* the items found so far
    \* ---- find_description_for_price
    fd_price,           \* price_bbox
    fd_spans,           \* all_spans
    fd_out,             \* the description returned, empty before the call
    \* ---- equipment requests
    eq_rows,            \* status of the row of each request id
    eq_log,             \* history: the PATCH requests with their status codes
    \* ---- main
    mn_pc,              \* position inside main
    mn_args,            \* args.port and what args.pdf is
    mn_server,          \* the local server: "none" or "bound"
    mn_stdout,          \* the lines written to standard output
    mn_stderr,          \* the lines written to standard error
    mn_log,             \* the records passed to the logger
    mn_served,          \* requests handed to the handler so far
    mn_exit,            \* the exit status, None while running
    \* ---- do_GET and do_POST
    hp_pc,              \* position of the handler
    hp_req,             \* the request in hand: method, path, Content-Length
    hp_timeout,         \* the timeout of the connection
    hp_orig,            \* original_timeout
    hp_trace,           \* history: what the handler did with the request
    hp_resp,            \* the status code sent, NoResponse if none
    hp_before,          \* history: the document state when the request arrived
    hp_count,           \* requests finished so far
    \* ---- POST /api/log
    lg_body,            \* the decoded body: its kind and the message
    lg_out,             \* the status sent and the text logged
    \* ---- equipment items and availability
    av_items,           \* the rows of equipment_items
    av_assigned,        \* assigned_item_id of the line of each request
    av_out              \* the rows the last availability check returned

storeVars == <<current_pdf_path, prices_cache, state_lock, load_lock,
               pc, arg, loc, pdf_path_l, ret, lastPub>>

rlVars == <<clock, requests, rl_pc, rl_now, rl_key, calls>>

updVars == <<u_pc, u_in, u_out, u_reqs, u_res, links, fs, fs0, opened, doc_ops, io>>

rrVars == <<platform, rr_pc, attempt, delay, last_error, rr_log, rr_out>>

pvVars == <<pv_in, pv_out>>

shVars == <<shutdown_token, server_instance, server_state, sh_pc, sh_reqs,
            sh_threads, sh_log>>

coVars == <<co_req, co_pc, co_doc, co_resp>>

ynVars == <<yn_in, yn_out>>

fpVars == <<fp_in, fp_text>>

exVars == <<ex_doc, ex_pc, ex_page, ex_span, price_id, prices>>

fdVars == <<fd_price, fd_spans, fd_out>>

eqVars == <<eq_rows, eq_log>>

mnVars == <<mn_pc, mn_args, mn_server, mn_stdout, mn_stderr, mn_log, mn_served, mn_exit>>

hpVars == <<hp_pc, hp_req, hp_timeout, hp_orig, hp_trace, hp_resp, hp_before, hp_count>>

lgVars == <<lg_body, lg_out>>

avVars == <<av_items, av_assigned, av_out>>

vars == <<storeVars, rlVars, updVars, rrVars, pvVars, shVars, coVars, ynVars, fpVars, exVars, fdVars, eqVars, mnVars, hpVars, lgVars, avVars>>

NoRet == [kind |-> "none", path |-> None, prices |-> NonePrices]

StoreInit ==
    /\ current_pdf_path = None
    /\ prices_cache = NonePrices
    /\ state_lock = 0
    /\ load_lock = 0
    /\ pc = [t \in Threads |-> "idle"]
    /\ arg = [t \in Threads |-> None]
    /\ loc = [t \in Threads |-> NonePrices]
    /\ pdf_path_l = [t \in Threads |-> None]
    /\ ret = [t \in Threads |-> NoRet]
    /\ lastPub = None

\* extract_prices(pdf_path) on a readable document: the list found in it.
extract_prices(p) == [src |-> p]

\* ------------------------------------------------------------------------
\* load_pdf(pdf_path)
\* ------------------------------------------------------------------------

\* A thread enters load_pdf and requests load_lock.
StartLoad(t) ==
    /\ pc[t] = "idle"
    /\ \E p \in Paths : arg' = [arg EXCEPT ![t] = p]
    /\ pc' = [pc EXCEPT ![t] = "l_wait"]
    /\ ret' = [ret EXCEPT ![t] = NoRet]
    /\ UNCHANGED <<current_pdf_path, prices_cache, state_lock, load_lock, loc, pdf_path_l, lastPub>>
    /\ UNCHANGED <<rlVars, updVars, rrVars, pvVars, shVars, coVars, ynVars, fpVars, exVars, fdVars, eqVars, mnVars, hpVars, lgVars, avVars>>


\* Mutant of LoadAcquire: the load starts extracting without taking load_lock.
LoadAcquire_NoLock(t) ==
    /\ pc[t] = "l_wait"
    /\ pc' = [pc EXCEPT ![t] = "l_extract"]
    /\ UNCHANGED <<current_pdf_path, prices_cache, state_lock, load_lock, arg, loc, pdf_path_l, ret, lastPub>>
    /\ UNCHANGED <<rlVars, updVars, rrVars, pvVars, shVars, coVars, ynVars, fpVars, exVars, fdVars, eqVars, mnVars, hpVars, lgVars, avVars>>

\* with load_lock:
LoadAcquire(t) ==
    /\ pc[t] = "l_wait"
    /\ load_lock = 0
    /\ load_lock' = t
    /\ pc' = [pc EXCEPT ![t] = "l_extract"]
    /\ UNCHANGED <<current_pdf_path, prices_cache, state_lock, arg, loc, pdf_path_l, ret, lastPub>>
    /\ UNCHANGED <<rlVars, updVars, rrVars, pvVars, shVars, coVars, ynVars, fpVars, exVars, fdVars, eqVars, mnVars, hpVars, lgVars, avVars>>

\* Mutant of LoadExtract: a failed extraction clears the cached prices.
LoadExtract_ClearsOnFailure(t) ==
    /\ pc[t] = "l_extract"
    /\ \/ /\ loc' = [loc EXCEPT ![t] = extract_prices(arg[t])]
          /\ pc' = [pc EXCEPT ![t] = "l_swait"]
          /\ ret' = ret
          /\ prices_cache' = prices_cache
       \/ /\ loc' = loc
          /\ pc' = [pc EXCEPT ![t] = "l_exit"]
          /\ ret' = [ret EXCEPT ![t] = [kind |-> "load_error", path |-> None, prices |-> NonePrices]]
          /\ prices_cache' = NonePrices
    /\ UNCHANGED <<current_pdf_path, state_lock, load_lock, arg, pdf_path_l, lastPub>>
    /\ UNCHANGED <<rlVars, updVars, rrVars, pvVars, shVars, coVars, ynVars, fpVars, exVars, fdVars, eqVars, mnVars, hpVars, lgVars, avVars>>

\* prices = extract_prices(pdf_path): returns the list, or raises.
LoadExtract(t) ==
    /\ pc[t] = "l_extract"
    /\ \/ /\ loc' = [loc EXCEPT ![t] = extract_prices(arg[t])]
          /\ pc' = [pc EXCEPT ![t] = "l_swait"]
          /\ ret' = ret
       \/ /\ loc' = loc
          /\ pc' = [pc EXCEPT ![t] = "l_exit"]
          /\ ret' = [ret EXCEPT ![t] = [kind |-> "load_error", path |-> None, prices |-> NonePrices]]
    /\ UNCHANGED <<current_pdf_path, prices_cache, state_lock, load_lock, arg, pdf_path_l, lastPub>>
    /\ UNCHANGED <<rlVars, updVars, rrVars, pvVars, shVars, coVars, ynVars, fpVars, exVars, fdVars, eqVars, mnVars, hpVars, lgVars, avVars>>


\* Mutant of LoadAcqState: the publish step runs without taking state_lock.
LoadAcqState_NoLock(t) ==
    /\ pc[t] = "l_swait"
    /\ pc' = [pc EXCEPT ![t] = "l_pub1"]
    /\ UNCHANGED <<current_pdf_path, prices_cache, state_lock, load_lock, arg, loc, pdf_path_l, ret, lastPub>>
    /\ UNCHANGED <<rlVars, updVars, rrVars, pvVars, shVars, coVars, ynVars, fpVars, exVars, fdVars, eqVars, mnVars, hpVars, lgVars, avVars>>

\* with state_lock: (inside load_pdf)
LoadAcqState(t) ==
    /\ pc[t] = "l_swait"
    /\ state_lock = 0
    /\ state_lock' = t
    /\ pc' = [pc EXCEPT ![t] = "l_pub1"]
    /\ UNCHANGED <<current_pdf_path, prices_cache, load_lock, arg, loc, pdf_path_l, ret, lastPub>>
    /\ UNCHANGED <<rlVars, updVars, rrVars, pvVars, shVars, coVars, ynVars, fpVars, exVars, fdVars, eqVars, mnVars, hpVars, lgVars, avVars>>

\* current_pdf_path = pdf_path
LoadPubPath(t) ==
    /\ pc[t] = "l_pub1"
    /\ current_pdf_path' = arg[t]
    /\ pc' = [pc EXCEPT ![t] = "l_pub2"]
    /\ UNCHANGED <<prices_cache, state_lock, load_lock, arg, loc, pdf_path_l, ret, lastPub>>
    /\ UNCHANGED <<rlVars, updVars, rrVars, pvVars, shVars, coVars, ynVars, fpVars, exVars, fdVars, eqVars, mnVars, hpVars, lgVars, avVars>>

\* prices_cache = prices
LoadPubPrices(t) ==
    /\ pc[t] = "l_pub2"
    /\ prices_cache' = loc[t]
    /\ pc' = [pc EXCEPT ![t] = "l_srel"]
    /\ UNCHANGED <<current_pdf_path, state_lock, load_lock, arg, loc, pdf_path_l, ret, lastPub>>
    /\ UNCHANGED <<rlVars, updVars, rrVars, pvVars, shVars, coVars, ynVars, fpVars, exVars, fdVars, eqVars, mnVars, hpVars, lgVars, avVars>>

\* end of "with state_lock": the publication is complete.
LoadRelState(t) ==
    /\ pc[t] = "l_srel"
    /\ state_lock' = IF state_lock = t THEN 0 ELSE state_lock
    /\ lastPub' = arg[t]
    /\ ret' = [ret EXCEPT ![t] = [kind |-> "load_ok", path |-> None, prices |-> NonePrices]]
    /\ pc' = [pc EXCEPT ![t] = "l_exit"]
    /\ UNCHANGED <<current_pdf_path, prices_cache, load_lock, arg, loc, pdf_path_l>>
    /\ UNCHANGED <<rlVars, updVars, rrVars, pvVars, shVars, coVars, ynVars, fpVars, exVars, fdVars, eqVars, mnVars, hpVars, lgVars, avVars>>

\* end of "with load_lock" (return, or the exception leaving the block).
LoadExit(t) ==
    /\ pc[t] = "l_exit"
    /\ load_lock' = IF load_lock = t THEN 0 ELSE load_lock
    /\ pc' = [pc EXCEPT ![t] = "idle"]
    /\ arg' = [arg EXCEPT ![t] = None]
    /\ loc' = [loc EXCEPT ![t] = NonePrices]
    /\ UNCHANGED <<current_pdf_path, prices_cache, state_lock, pdf_path_l, ret, lastPub>>
    /\ UNCHANGED <<rlVars, updVars, rrVars, pvVars, shVars, coVars, ynVars, fpVars, exVars, fdVars, eqVars, mnVars, hpVars, lgVars, avVars>>

\* ------------------------------------------------------------------------
\* get_current_pdf_path()   (GET /api/health)
\* ------------------------------------------------------------------------
StartHealth(t) ==
    /\ pc[t] = "idle"
    /\ pc' = [pc EXCEPT ![t] = "h_wait"]
    /\ ret' = [ret EXCEPT ![t] = NoRet]
    /\ UNCHANGED <<current_pdf_path, prices_cache, state_lock, load_lock, arg, loc, pdf_path_l, lastPub>>
    /\ UNCHANGED <<rlVars, updVars, rrVars, pvVars, shVars, coVars, ynVars, fpVars, exVars, fdVars, eqVars, mnVars, hpVars, lgVars, avVars>>

\* Mutant of HealthAcqState: the reader goes on only while no load or export
\* holds load_lock.
HealthAcqState_WhenNoLoad(t) ==
    /\ pc[t] = "h_wait"
    /\ state_lock = 0
    /\ load_lock = 0
    /\ state_lock' = t
    /\ pc' = [pc EXCEPT ![t] = "h_read"]
    /\ UNCHANGED <<current_pdf_path, prices_cache, load_lock, arg, loc, pdf_path_l, ret, lastPub>>
    /\ UNCHANGED <<rlVars, updVars, rrVars, pvVars, shVars, coVars, ynVars, fpVars, exVars, fdVars, eqVars, mnVars, hpVars, lgVars, avVars>>

\* with state_lock:
HealthAcqState(t) ==
    /\ pc[t] = "h_wait"
    /\ state_lock = 0
    /\ state_lock' = t
    /\ pc' = [pc EXCEPT ![t] = "h_read"]
    /\ UNCHANGED <<current_pdf_path, prices_cache, load_lock, arg, loc, pdf_path_l, ret, lastPub>>
    /\ UNCHANGED <<rlVars, updVars, rrVars, pvVars, shVars, coVars, ynVars, fpVars, exVars, fdVars, eqVars, mnVars, hpVars, lgVars, avVars>>


\* Mutant of HealthRead: the reader, still holding state_lock, goes on to
\* request load_lock (the two locks taken in the opposite order).
HealthRead_ThenLoadLock(t) ==
    /\ pc[t] = "h_read"
    /\ pc' = [pc EXCEPT ![t] = "l_wait"]
    /\ arg' = [arg EXCEPT ![t] = "a.pdf"]
    /\ UNCHANGED <<current_pdf_path, prices_cache, state_lock, load_lock, loc, pdf_path_l, ret, lastPub>>
    /\ UNCHANGED <<rlVars, updVars, rrVars, pvVars, shVars, coVars, ynVars, fpVars, exVars, fdVars, eqVars, mnVars, hpVars, lgVars, avVars>>

\* return current_pdf_path (and the lock is released)
HealthRead(t) ==
    /\ pc[t] = "h_read"
    /\ ret' = [ret EXCEPT ![t] = [kind |-> "health", path |-> current_pdf_path, prices |-> NonePrices]]
    /\ state_lock' = IF state_lock = t THEN 0 ELSE state_lock
    /\ pc' = [pc EXCEPT ![t] = "idle"]
    /\ UNCHANGED <<current_pdf_path, prices_cache, load_lock, arg, loc, pdf_path_l, lastPub>>
    /\ UNCHANGED <<rlVars, updVars, rrVars, pvVars, shVars, coVars, ynVars, fpVars, exVars, fdVars, eqVars, mnVars, hpVars, lgVars, avVars>>

\* ------------------------------------------------------------------------
\* get_prices_with_path()   (GET /api/prices)
\* ------------------------------------------------------------------------
StartPrices(t) ==
    /\ pc[t] = "idle"
    /\ pc' = [pc EXCEPT ![t] = "p_wait"]
    /\ ret' = [ret EXCEPT ![t] = NoRet]
    /\ UNCHANGED <<current_pdf_path, prices_cache, state_lock, load_lock, arg, loc, pdf_path_l, lastPub>>
    /\ UNCHANGED <<rlVars, updVars, rrVars, pvVars, shVars, coVars, ynVars, fpVars, exVars, fdVars, eqVars, mnVars, hpVars, lgVars, avVars>>

\* with state_lock:
PricesAcqState(t) ==
    /\ pc[t] = "p_wait"
    /\ state_lock = 0
    /\ state_lock' = t
    /\ pc' = [pc EXCEPT ![t] = "p_read1"]
    /\ UNCHANGED <<current_pdf_path, prices_cache, load_lock, arg, loc, pdf_path_l, ret, lastPub>>
    /\ UNCHANGED <<rlVars, updVars, rrVars, pvVars, shVars, coVars, ynVars, fpVars, exVars, fdVars, eqVars, mnVars, hpVars, lgVars, avVars>>

\* the read of prices_cache
PricesReadCache(t) ==
    /\ pc[t] = "p_read1"
    /\ loc' = [loc EXCEPT ![t] = prices_cache]
    /\ pc' = [pc EXCEPT ![t] = "p_read2"]
    /\ UNCHANGED <<current_pdf_path, prices_cache, state_lock, load_lock, arg, pdf_path_l, ret, lastPub>>
    /\ UNCHANGED <<rlVars, updVars, rrVars, pvVars, shVars, coVars, ynVars, fpVars, exVars, fdVars, eqVars, mnVars, hpVars, lgVars, avVars>>

\* the read of current_pdf_path; raise ValueError when either is None, else
\* return (prices_cache, current_pdf_path); the lock is released either way.
PricesReadPath(t) ==
    /\ pc[t] = "p_read2"
    /\ ret' = [ret EXCEPT ![t] =
                 IF loc[t] = NonePrices \/ current_pdf_path = None
                 THEN [kind |-> "not_loaded", path |-> None, prices |-> NonePrices]
                 ELSE [kind |-> "prices", path |-> current_pdf_path, prices |-> loc[t]]]
    /\ state_lock' = IF state_lock = t THEN 0 ELSE state_lock
    /\ loc' = [loc EXCEPT ![t] = NonePrices]
    /\ pc' = [pc EXCEPT ![t] = "idle"]
    /\ UNCHANGED <<current_pdf_path, prices_cache, load_lock, arg, pdf_path_l, lastPub>>
    /\ UNCHANGED <<rlVars, updVars, rrVars, pvVars, shVars, coVars, ynVars, fpVars, exVars, fdVars, eqVars, mnVars, hpVars, lgVars, avVars>>

\* ------------------------------------------------------------------------
\* get_prices()
\* ------------------------------------------------------------------------
StartGetPrices(t) ==
    /\ pc[t] = "idle"
    /\ pc' = [pc EXCEPT ![t] = "g_wait"]
    /\ ret' = [ret EXCEPT ![t] = NoRet]
    /\ UNCHANGED <<current_pdf_path, prices_cache, state_lock, load_lock, arg, loc, pdf_path_l, lastPub>>
    /\ UNCHANGED <<rlVars, updVars, rrVars, pvVars, shVars, coVars, ynVars, fpVars, exVars, fdVars, eqVars, mnVars, hpVars, lgVars, avVars>>

\* with state_lock:
GetPricesAcqState(t) ==
    /\ pc[t] = "g_wait"
    /\ state_lock = 0
    /\ state_lock' = t
    /\ pc' = [pc EXCEPT ![t] = "g_read"]
    /\ UNCHANGED <<current_pdf_path, prices_cache, load_lock, arg, loc, pdf_path_l, ret, lastPub>>
    /\ UNCHANGED <<rlVars, updVars, rrVars, pvVars, shVars, coVars, ynVars, fpVars, exVars, fdVars, eqVars, mnVars, hpVars, lgVars, avVars>>

\* Mutant of GetPricesRead: the cache is returned without the None test.
GetPricesRead_NoTest(t) ==
    /\ pc[t] = "g_read"
    /\ ret' = [ret EXCEPT ![t] = [kind |-> "cached", path |-> None, prices |-> prices_cache]]
    /\ state_lock' = IF state_lock = t THEN 0 ELSE state_lock
    /\ pc' = [pc EXCEPT ![t] = "idle"]
    /\ UNCHANGED <<current_pdf_path, prices_cache, load_lock, arg, loc, pdf_path_l, lastPub>>
    /\ UNCHANGED <<rlVars, updVars, rrVars, pvVars, shVars, coVars, ynVars, fpVars, exVars, fdVars, eqVars, mnVars, hpVars, lgVars, avVars>>

\* raise ValueError when prices_cache is None, else return prices_cache; the
\* lock is released either way.
GetPricesRead(t) ==
    /\ pc[t] = "g_read"
    /\ ret' = [ret EXCEPT ![t] =
                 IF prices_cache = NonePrices
                 THEN [kind |-> "not_loaded", path |-> None, prices |-> NonePrices]
                 ELSE [kind |-> "cached", path |-> None, prices |-> prices_cache]]
    /\ state_lock' = IF state_lock = t THEN 0 ELSE state_lock
    /\ pc' = [pc EXCEPT ![t] = "idle"]
    /\ UNCHANGED <<current_pdf_path, prices_cache, load_lock, arg, loc, pdf_path_l, lastPub>>
    /\ UNCHANGED <<rlVars, updVars, rrVars, pvVars, shVars, coVars, ynVars, fpVars, exVars, fdVars, eqVars, mnVars, hpVars, lgVars, avVars>>

\* ------------------------------------------------------------------------
\* APIHandler.do_POST, /api/export (after the request body was validated)
\* ------------------------------------------------------------------------
StartExport(t) ==
    /\ pc[t] = "idle"
    /\ pc' = [pc EXCEPT ![t] = "e_wait"]
    /\ ret' = [ret EXCEPT ![t] = NoRet]
    /\ UNCHANGED <<current_pdf_path, prices_cache, state_lock, load_lock, arg, loc, pdf_path_l, lastPub>>
    /\ UNCHANGED <<rlVars, updVars, rrVars, pvVars, shVars, coVars, ynVars, fpVars, exVars, fdVars, eqVars, mnVars, hpVars, lgVars, avVars>>


\* Mutant of ExportAcquire: the export reads the path without taking load_lock.
ExportAcquire_NoLock(t) ==
    /\ pc[t] = "e_wait"
    /\ pc' = [pc EXCEPT ![t] = "e_swait"]
    /\ UNCHANGED <<current_pdf_path, prices_cache, state_lock, load_lock, arg, loc, pdf_path_l, ret, lastPub>>
    /\ UNCHANGED <<rlVars, updVars, rrVars, pvVars, shVars, coVars, ynVars, fpVars, exVars, fdVars, eqVars, mnVars, hpVars, lgVars, avVars>>

\* with load_lock:
ExportAcquire(t) ==
    /\ pc[t] = "e_wait"
    /\ load_lock = 0
    /\ load_lock' = t
    /\ pc' = [pc EXCEPT ![t] = "e_swait"]
    /\ UNCHANGED <<current_pdf_path, prices_cache, state_lock, arg, loc, pdf_path_l, ret, lastPub>>
    /\ UNCHANGED <<rlVars, updVars, rrVars, pvVars, shVars, coVars, ynVars, fpVars, exVars, fdVars, eqVars, mnVars, hpVars, lgVars, avVars>>

\* get_current_pdf_path(): with state_lock:
ExportAcqState(t) ==
    /\ pc[t] = "e_swait"
    /\ state_lock = 0
    /\ state_lock' = t
    /\ pc' = [pc EXCEPT ![t] = "e_read"]
    /\ UNCHANGED <<current_pdf_path, prices_cache, load_lock, arg, loc, pdf_path_l, ret, lastPub>>
    /\ UNCHANGED <<rlVars, updVars, rrVars, pvVars, shVars, coVars, ynVars, fpVars, exVars, fdVars, eqVars, mnVars, hpVars, lgVars, avVars>>

\* pdf_path = get_current_pdf_path() returns and releases state_lock
ExportReadPath(t) ==
    /\ pc[t] = "e_read"
    /\ pdf_path_l' = [pdf_path_l EXCEPT ![t] = current_pdf_path]
    /\ state_lock' = IF state_lock = t THEN 0 ELSE state_lock
    /\ pc' = [pc EXCEPT ![t] = "e_check"]
    /\ UNCHANGED <<current_pdf_path, prices_cache, load_lock, arg, loc, ret, lastPub>>
    /\ UNCHANGED <<rlVars, updVars, rrVars, pvVars, shVars, coVars, ynVars, fpVars, exVars, fdVars, eqVars, mnVars, hpVars, lgVars, avVars>>

\* if not pdf_path: 400 and return; derive and validate the output path:
\* ValueError -> 400 and return; otherwise go on to update_prices.
ExportCheck(t) ==
    /\ pc[t] = "e_check"
    /\ \/ /\ pdf_path_l[t] = None
          /\ ret' = [ret EXCEPT ![t] = [kind |-> "export_no_pdf", path |-> None, prices |-> NonePrices]]
          /\ pc' = [pc EXCEPT ![t] = "e_exit"]
       \/ /\ pdf_path_l[t] # None
          /\ ret' = [ret EXCEPT ![t] = [kind |-> "export_bad_output", path |-> None, prices |-> NonePrices]]
          /\ pc' = [pc EXCEPT ![t] = "e_exit"]
       \/ /\ pdf_path_l[t] # None
          /\ ret' = ret
          /\ pc' = [pc EXCEPT ![t] = "e_update"]
    /\ UNCHANGED <<current_pdf_path, prices_cache, state_lock, load_lock, arg, loc, pdf_path_l, lastPub>>
    /\ UNCHANGED <<rlVars, updVars, rrVars, pvVars, shVars, coVars, ynVars, fpVars, exVars, fdVars, eqVars, mnVars, hpVars, lgVars, avVars>>

\* result = update_prices(pdf_path, output_path, updates): returns a result
\* (success or not) or raises; both leave the "with load_lock" block.
ExportUpdate(t) ==
    /\ pc[t] = "e_update"
    /\ \E k \in {"export_returned", "export_raised"} :
          ret' = [ret EXCEPT ![t] = [kind |-> k, path |-> None, prices |-> NonePrices]]
    /\ pc' = [pc EXCEPT ![t] = "e_exit"]
    /\ UNCHANGED <<current_pdf_path, prices_cache, state_lock, load_lock, arg, loc, pdf_path_l, lastPub>>
    /\ UNCHANGED <<rlVars, updVars, rrVars, pvVars, shVars, coVars, ynVars, fpVars, exVars, fdVars, eqVars, mnVars, hpVars, lgVars, avVars>>


\* Mutant of ExportExit: the early returns leave without releasing load_lock.
ExportExit_LeakOnEarlyReturn(t) ==
    /\ pc[t] = "e_exit"
    /\ load_lock' = IF load_lock = t /\ ret[t].kind \notin {"export_no_pdf", "export_bad_output"}
                    THEN 0 ELSE load_lock
    /\ pdf_path_l' = [pdf_path_l EXCEPT ![t] = None]
    /\ pc' = [pc EXCEPT ![t] = "idle"]
    /\ UNCHANGED <<current_pdf_path, prices_cache, state_lock, arg, loc, ret, lastPub>>
    /\ UNCHANGED <<rlVars, updVars, rrVars, pvVars, shVars, coVars, ynVars, fpVars, exVars, fdVars, eqVars, mnVars, hpVars, lgVars, avVars>>

\* end of "with load_lock" on every way out of the block
ExportExit(t) ==
    /\ pc[t] = "e_exit"
    /\ load_lock' = IF load_lock = t THEN 0 ELSE load_lock
    /\ pdf_path_l' = [pdf_path_l EXCEPT ![t] = None]
    /\ pc' = [pc EXCEPT ![t] = "idle"]
    /\ UNCHANGED <<current_pdf_path, prices_cache, state_lock, arg, loc, ret, lastPub>>
    /\ UNCHANGED <<rlVars, updVars, rrVars, pvVars, shVars, coVars, ynVars, fpVars, exVars, fdVars, eqVars, mnVars, hpVars, lgVars, avVars>>

StoreNext ==
    \E t \in Threads :
        \/ StartLoad(t)
        \/ LoadAcquire(t)
        \/ LoadExtract(t)
        \/ LoadAcqState(t)
        \/ LoadPubPath(t)
        \/ LoadPubPrices(t)
        \/ LoadRelState(t)
        \/ LoadExit(t)
        \/ StartHealth(t)
        \/ HealthAcqState(t)
        \/ HealthRead(t)
        \/ StartPrices(t)
        \/ PricesAcqState(t)
        \/ PricesReadCache(t)
        \/ PricesReadPath(t)
        \/ StartGetPrices(t)
        \/ GetPricesAcqState(t)
        \/ GetPricesRead(t)
        \/ StartExport(t)
        \/ ExportAcquire(t)
        \/ ExportAcqState(t)
        \/ ExportReadPath(t)
        \/ ExportCheck(t)
        \/ ExportUpdate(t)
        \/ ExportExit(t)

(***************************************************************************)
(* RateLimiter (backend.py).  Time is counted in ticks of the clock;       *)
(* window_seconds is WindowTicks ticks.  max_requests and window_seconds   *)
(* are constructor parameters (the tests build limiters with 2, 5, 10 and  *)
(* 20 requests), so they are bounds of the model.                          *)
(***************************************************************************)
MaxRequests == 2
WindowTicks == 2
MaxTime == 3
MaxCalls == 4

\* The endpoints used as keys (self.path).
Endpoints == {"/api/load", "/api/prices"}

RLInit ==
    /\ clock = 0
    /\ requests = [k \in Endpoints |-> <<>>]
    /\ rl_pc = [t \in Threads |-> "idle"]
    /\ rl_now = [t \in Threads |-> 0]
    /\ rl_key = [t \in Threads |-> None]
    /\ calls = <<>>

\* The clock advances.
Tick ==
    /\ clock < MaxTime
    /\ clock' = clock + 1
    /\ UNCHANGED <<requests, rl_pc, rl_now, rl_key, calls>>
    /\ UNCHANGED <<storeVars, updVars, rrVars, pvVars, shVars, coVars, ynVars, fpVars, exVars, fdVars, eqVars, mnVars, hpVars, lgVars, avVars>>

\* is_allowed(endpoint): now = time.time(); cutoff = now - window_seconds
\* (both before the lock is requested); the thread then waits for the lock.
RLReadClock(t) ==
    /\ rl_pc[t] = "idle"
    /\ Len(calls) + Cardinality({u \in Threads : rl_pc[u] # "idle"}) < MaxCalls
    /\ \E k \in Endpoints : rl_key' = [rl_key EXCEPT ![t] = k]
    /\ rl_now' = [rl_now EXCEPT ![t] = clock]
    /\ rl_pc' = [rl_pc EXCEPT ![t] = "wait"]
    /\ UNCHANGED <<clock, requests, calls>>
    /\ UNCHANGED <<storeVars, updVars, rrVars, pvVars, shVars, coVars, ynVars, fpVars, exVars, fdVars, eqVars, mnVars, hpVars, lgVars, avVars>>

\* Mutant of Unexpired: expired timestamps are never removed.
Unexpired_KeepAll(ts, now) == ts

\* Mutant of Unexpired: a timestamp equal to the cutoff is kept as well.
Unexpired_KeepBoundary(ts, now) ==
    LET cutoff == now - WindowTicks
        Keep(x) == x >= cutoff
    IN  SelectSeq(ts, Keep)

\* [t for t in self.requests[endpoint] if t > cutoff]
Unexpired(ts, now) ==
    LET cutoff == now - WindowTicks
        Keep(x) == x > cutoff
    IN  SelectSeq(ts, Keep)

\* "with self.lock:" and its body, which the lock makes one atomic step with
\* respect to every other call (nothing else reads or writes self.requests):
\*   self.requests[endpoint] = [the unexpired timestamps]
\*   if len(self.requests[endpoint]) < self.max_requests: append(now), return
\*   True; else return False.  The lock is released on return.
RLCheck(t) ==
    /\ rl_pc[t] = "wait"
    /\ LET k == rl_key[t]
           kept == Unexpired(requests[k], rl_now[t])
           ok == Len(kept) < MaxRequests
       IN  /\ requests' = [requests EXCEPT ![k] = IF ok THEN Append(kept, rl_now[t]) ELSE kept]
           /\ calls' = Append(calls, [key |-> k, now |-> rl_now[t], ok |-> ok])
    /\ rl_pc' = [rl_pc EXCEPT ![t] = "idle"]
    /\ rl_now' = [rl_now EXCEPT ![t] = 0]
    /\ rl_key' = [rl_key EXCEPT ![t] = None]
    /\ UNCHANGED clock
    /\ UNCHANGED <<storeVars, updVars, rrVars, pvVars, shVars, coVars, ynVars, fpVars, exVars, fdVars, eqVars, mnVars, hpVars, lgVars, avVars>>

RLNext ==
    \/ Tick
    \/ \E t \in Threads :
          \/ RLReadClock(t)
          \/ RLCheck(t)

(***************************************************************************)
(* update_prices (update_pdf.py)                                           *)
(***************************************************************************)
\* ---- Python values of the request fields -------------------------------
\* A scalar is a number (an int or a float, possibly NaN or an infinity) or
\* something else (a string, None, ...).  Numbers carry an integer v:
\*   bbox coordinates and page sizes in units of 0.05 point,
\*   new_value in cents, color components in hundredths, font_size in tenths.
Num(n) == [t |-> "num", v |-> n]
NaN == [t |-> "nan", v |-> 0]
PosInf == [t |-> "inf", v |-> 0]
NegInf == [t |-> "ninf", v |-> 0]
Str == [t |-> "str", v |-> 0]
\* A Python int too large to convert to a float (10**400; JSON carries such)
Huge == [t |-> "huge", v |-> 0]

\* isinstance(x, (int, float)), math.isnan(x), math.isinf(x)
IsNumber(x) == x.t \in {"num", "nan", "inf", "ninf", "huge"}
\* math.isnan and math.isinf convert their argument to a float first: on a
\* Huge int they raise OverflowError.
Overflows(x) == x.t = "huge"
IsNan(x) == x.t = "nan"
IsInf(x) == x.t \in {"inf", "ninf"}

\* A list value, or something that is no list or tuple.
List(items) == [list |-> TRUE, items |-> items]
NotAList == [list |-> FALSE, items |-> <<>>]

\* MIN_BBOX_DIMENSION = 0.1 point, in units of 0.05 point
MIN_BBOX_DIMENSION == 2
\* the cap on new_value, 10_000_000, in cents
MaxNewValue == 1000000000
\* the upper end of a color component, 1, in hundredths
ColorMax == 100
\* tolerance = 1.0 point, in units of 0.05 point
Tolerance == 20

\* The document: its page count and page size (units of 0.05 point).
NPages == 2
PageWidth == 200
PageHeight == 300

RequiredFields == <<"bbox", "new_value", "page_num", "font_size", "color">>
AllFields == {"bbox", "new_value", "page_num", "font_size", "color", "id", "has_hr_suffix"}

\* ---- pre-flight validation of one request (update_prices, the for loop) --
\* The first missing required field, in the order of required_fields.
RECURSIVE FirstMissing(_, _)
FirstMissing(u, k) ==
    IF k > Len(RequiredFields) THEN None
    ELSE IF RequiredFields[k] \notin u.has THEN RequiredFields[k]
    ELSE FirstMissing(u, k + 1)

\* The first bbox coordinate that is no number, NaN or infinite.
RECURSIVE BadCoord(_, _)
BadCoord(items, k) ==
    IF k > 4 THEN "ok"
    ELSE IF ~IsNumber(items[k]) THEN "bbox_not_number"
    ELSE IF Overflows(items[k]) THEN "OverflowError"
    ELSE IF IsNan(items[k]) THEN "bbox_nan"
    ELSE IF IsInf(items[k]) THEN "bbox_infinite"
    ELSE BadCoord(items, k + 1)

\* The first color component that is no number, not finite or outside [0, 1].
RECURSIVE BadComponent(_, _)
BadComponent(items, k) ==
    IF k > 3 THEN "ok"
    ELSE IF ~IsNumber(items[k]) THEN "color_not_number"
    ELSE IF Overflows(items[k]) THEN "OverflowError"
    ELSE IF IsNan(items[k]) \/ IsInf(items[k]) THEN "color_not_finite"
    ELSE IF items[k].v < 0 \/ items[k].v > ColorMax THEN "color_out_of_range"
    ELSE BadComponent(items, k + 1)

CheckBbox(b) ==
    IF ~b.list THEN "bbox_not_list"
    ELSE IF Len(b.items) # 4 THEN "bbox_length"
    ELSE IF BadCoord(b.items, 1) # "ok" THEN BadCoord(b.items, 1)
    ELSE LET x0 == b.items[1].v
             y0 == b.items[2].v
             x1 == b.items[3].v
             y1 == b.items[4].v
         IN  IF x0 < 0 \/ y0 < 0 \/ x1 < 0 \/ y1 < 0 THEN "bbox_negative"
             ELSE IF x0 >= x1 THEN "bbox_x_order"
             ELSE IF y0 >= y1 THEN "bbox_y_order"
             ELSE IF x1 - x0 < MIN_BBOX_DIMENSION THEN "bbox_width_small"
             ELSE IF y1 - y0 < MIN_BBOX_DIMENSION THEN "bbox_height_small"
             ELSE "ok"

CheckFontSize(f) ==
    IF ~IsNumber(f) THEN "font_size_not_number"
    ELSE IF Overflows(f) THEN "OverflowError"
    ELSE IF IsNan(f) \/ IsInf(f) THEN "font_size_not_finite"
    ELSE IF f.v <= 0 THEN "font_size_not_positive"
    ELSE "ok"

CheckNewValue(n) ==
    IF ~IsNumber(n) THEN "new_value_not_number"
    ELSE IF Overflows(n) THEN "OverflowError"
    ELSE IF IsNan(n) THEN "new_value_nan"
    ELSE IF IsInf(n) THEN "new_value_infinite"
    ELSE IF n.v <= 0 THEN "new_value_not_positive"
    ELSE IF n.v > MaxNewValue THEN "new_value_too_large"
    ELSE "ok"

CheckColor(c) ==
    IF ~c.list THEN "color_not_list"
    ELSE IF Len(c.items) # 3 THEN "color_length"
    ELSE BadComponent(c.items, 1)

\* The error of request u, "ok" when it passes: the checks in source order.
\* "OverflowError" stands for the exception raised out of the validation.
ValidateUpdate(u) ==
    IF FirstMissing(u, 1) # None THEN "missing_field"
    ELSE IF CheckBbox(u.bbox) # "ok" THEN CheckBbox(u.bbox)
    ELSE IF CheckFontSize(u.font_size) # "ok" THEN CheckFontSize(u.font_size)
    ELSE IF CheckNewValue(u.new_value) # "ok" THEN CheckNewValue(u.new_value)
    ELSE CheckColor(u.color)

\* for i, update in enumerate(price_updates): the error list of the first
\* failing request (the function returns there), empty when all pass.
RECURSIVE FirstError(_, _)
FirstError(reqs, i) ==
    IF i > Len(reqs) THEN <<>>
    ELSE IF ValidateUpdate(reqs[i]) # "ok"
         THEN <<[index |-> i, code |-> ValidateUpdate(reqs[i])]>>
    ELSE FirstError(reqs, i + 1)

\* ---- the per-page loop of update_prices --------------------------------
\* updates_by_page: the distinct page_num values in order of first occurrence.
RECURSIVE PageOrder(_, _, _)
PageOrder(reqs, i, acc) ==
    IF i > Len(reqs) THEN acc
    ELSE PageOrder(reqs, i + 1,
                   IF \E k \in 1..Len(acc) : acc[k] = reqs[i].page_num
                   THEN acc ELSE Append(acc, reqs[i].page_num))

\* updates_by_page[page_num], as indices into price_updates.
IndicesOf(reqs, pg) ==
    LET OnPage(i) == reqs[i].page_num = pg
    IN  SelectSeq([i \in 1..Len(reqs) |-> i], OnPage)

\* The page-bounds check of one request (bbox passed pre-flight validation).
BoundsCode(u) ==
    IF u.bbox.items[3].v > PageWidth + Tolerance THEN "bbox_x1_exceeds_page"
    ELSE IF u.bbox.items[4].v > PageHeight + Tolerance THEN "bbox_y1_exceeds_page"
    ELSE "ok"

\* Mutant of ValidUpdates: the page-bounds check excludes nothing.
ValidUpdates_KeepAll(reqs, idxs) == idxs

\* valid_updates of a page, as indices.
ValidUpdates(reqs, idxs) ==
    LET Fits(i) == BoundsCode(reqs[i]) = "ok"
    IN  SelectSeq(idxs, Fits)

\* The errors of the bounds loop, in request order.
RECURSIVE BoundsErrors(_, _, _)
BoundsErrors(reqs, idxs, k) ==
    IF k > Len(idxs) THEN <<>>
    ELSE (IF BoundsCode(reqs[idxs[k]]) = "ok" THEN <<>>
          ELSE <<[index |-> idxs[k], code |-> BoundsCode(reqs[idxs[k]])]>>)
         \o BoundsErrors(reqs, idxs, k + 1)

\* Mutant of InsertCode: a return value of 0 counts as a success.
InsertCode_ZeroIsFine(u) == IF u.rc >= 0 THEN "ok" ELSE "insert_text_negative"

\* The check of insert_text's return value rc (the request's rc field is
\* what the library returns for it).
InsertCode(u) ==
    IF u.rc > 0 THEN "ok"
    ELSE IF u.rc = 0 THEN "insert_text_zero"
    ELSE "insert_text_negative"

\* The errors and the updated entries of the insertion loop.
RECURSIVE InsertErrors(_, _, _)
InsertErrors(reqs, idxs, k) ==
    IF k > Len(idxs) THEN <<>>
    ELSE (IF InsertCode(reqs[idxs[k]]) = "ok" THEN <<>>
          ELSE <<[index |-> idxs[k], code |-> InsertCode(reqs[idxs[k]])]>>)
         \o InsertErrors(reqs, idxs, k + 1)

RECURSIVE InsertUpdated(_, _, _)
InsertUpdated(reqs, idxs, k) ==
    IF k > Len(idxs) THEN <<>>
    ELSE (IF InsertCode(reqs[idxs[k]]) = "ok"
          THEN <<[id |-> reqs[idxs[k]].id, index |-> idxs[k]]>>
          ELSE <<>>)
         \o InsertUpdated(reqs, idxs, k + 1)

\* An operation on the open document (index 0: a whole-page operation).
DocOp(op, i, pg) == [op |-> op, index |-> i, page |-> pg]

\* The outcome of page.add_redact_annot for a request (its redact field is
\* what the library does for it): the annotation is added, or ValueError is
\* raised and the handler records an error.
RedactCode(u) == IF u.redact = "ok" THEN "ok" ELSE "redact_value_error"

\* The redaction loop of a page: add_redact_annot for each valid request in
\* turn ("redact": the annotation was added, "redact_raised": the call
\* raised).  The debug line after it, and the handler's message, read
\* update['id']: for a request without an id this raises KeyError, which no
\* handler catches, and the loop ends.
RedactOps(reqs, valid, pg) ==
    LET noId == {k \in 1..Len(valid) : "id" \notin reqs[valid[k]].has}
        n == IF noId = {} THEN Len(valid)
             ELSE CHOOSE k \in noId : \A j \in noId : k <= j
    IN  [k \in 1..n |->
            DocOp(IF RedactCode(reqs[valid[k]]) = "ok" THEN "redact" ELSE "redact_raised",
                  valid[k], pg)]

\* The errors of the redaction loop, in request order.
RECURSIVE RedactErrors(_, _, _)
RedactErrors(reqs, idxs, k) ==
    IF k > Len(idxs) THEN <<>>
    ELSE (IF RedactCode(reqs[idxs[k]]) = "ok" THEN <<>>
          ELSE <<[index |-> idxs[k], code |-> RedactCode(reqs[idxs[k]])]>>)
         \o RedactErrors(reqs, idxs, k + 1)

\* The insertion loop of a page: insert_text for each valid request.
InsertOps(reqs, valid, pg) ==
    [k \in 1..Len(valid) |-> DocOp("insert", valid[k], pg)]

\* Mutant of ProcessPage: the texts are inserted before the redactions are
\* applied.
ProcessPage_InsertBeforeApply(reqs, pg) ==
    IF pg.t # "num"
    THEN [errors |-> <<[index |-> 0, code |-> "page_num_type"]>>, updated |-> <<>>,
          ops |-> <<>>, raised |-> FALSE]
    ELSE IF pg.v < 0 \/ pg.v >= NPages
    THEN [errors |-> <<[index |-> 0, code |-> "page_num_range"]>>, updated |-> <<>>,
          ops |-> <<>>, raised |-> FALSE]
    ELSE LET idxs == IndicesOf(reqs, pg)
             valid == ValidUpdates(reqs, idxs)
             raises == \E k \in 1..Len(valid) : "id" \notin reqs[valid[k]].has
         IN  IF raises
             THEN [errors |-> BoundsErrors(reqs, idxs, 1), updated |-> <<>>,
                   ops |-> RedactOps(reqs, valid, pg.v), raised |-> TRUE]
             ELSE [errors |-> BoundsErrors(reqs, idxs, 1) \o RedactErrors(reqs, valid, 1)
                               \o InsertErrors(reqs, valid, 1),
                   updated |-> InsertUpdated(reqs, valid, 1),
                   ops |-> RedactOps(reqs, valid, pg.v)
                           \o InsertOps(reqs, valid, pg.v)
                           \o <<DocOp("apply_redactions", 0, pg.v), DocOp("clean_contents", 0, pg.v)>>,
                   raised |-> FALSE]

\* One iteration of "for page_num, updates in updates_by_page.items()":
\* what it adds to the results, what it does to the document, and whether
\* it raises.
ProcessPage(reqs, pg) ==
    IF pg.t # "num"
    THEN [errors |-> <<[index |-> 0, code |-> "page_num_type"]>>, updated |-> <<>>,
          ops |-> <<>>, raised |-> FALSE]
    ELSE IF pg.v < 0 \/ pg.v >= NPages
    THEN [errors |-> <<[index |-> 0, code |-> "page_num_range"]>>, updated |-> <<>>,
          ops |-> <<>>, raised |-> FALSE]
    ELSE LET idxs == IndicesOf(reqs, pg)
             valid == ValidUpdates(reqs, idxs)
             raises == \E k \in 1..Len(valid) : "id" \notin reqs[valid[k]].has
         IN  IF raises
             THEN [errors |-> BoundsErrors(reqs, idxs, 1), updated |-> <<>>,
                   ops |-> RedactOps(reqs, valid, pg.v), raised |-> TRUE]
             ELSE [errors |-> BoundsErrors(reqs, idxs, 1) \o RedactErrors(reqs, valid, 1)
                               \o InsertErrors(reqs, valid, 1),
                   updated |-> InsertUpdated(reqs, valid, 1),
                   ops |-> RedactOps(reqs, valid, pg.v)
                           \o <<DocOp("apply_redactions", 0, pg.v), DocOp("clean_contents", 0, pg.v)>>
                           \o InsertOps(reqs, valid, pg.v),
                   raised |-> FALSE]

\* The whole loop over the pages, from page k of the page order on.
RECURSIVE ProcessPages(_, _, _, _)
ProcessPages(reqs, pages, k, acc) ==
    IF k > Len(pages) \/ acc.raised THEN acc
    ELSE LET r == ProcessPage(reqs, pages[k])
         IN  ProcessPages(reqs, pages, k + 1,
                          [errors |-> acc.errors \o r.errors,
                           updated |-> acc.updated \o r.updated,
                           ops |-> acc.ops \o r.ops,
                           raised |-> r.raised])

\* ---- the file system --------------------------------------------------
\* The names in the output directory; TmpName is the name mkstemp makes up.
TmpName == "update_pdf_tmp.pdf"
Names == {"in.pdf", "out.pdf", "link.pdf", TmpName}

\* Path normalisation: "./in.pdf" is another spelling of "in.pdf".
normpath(p) == IF p = "./in.pdf" THEN "in.pdf" ELSE p

\* The directory entry a name is looked up as.  The volume that holds the
\* files may fold case (the default on macOS and Windows): there "IN.PDF"
\* is a spelling of the entry "in.pdf", which path functions that only
\* follow links (posixpath.realpath) leave as it is.
Entry(p) == IF p = "IN.PDF" THEN "in.pdf" ELSE p

\* Mutant of realpath: the paths are compared as given.
realpath_AsGiven(p) == p

\* os.path.realpath: normalise, then follow symbolic links (chains here
\* have one link).
realpath(p) ==
    IF links[Entry(normpath(p))] # None THEN links[Entry(normpath(p))] ELSE normpath(p)

\* What reading path p gives: "absent" when nothing is there.
Content(p) == fs[Entry(realpath(p))]

\* ---- the calls of update_prices the model starts from -------------------
G0 ==
    [has |-> AllFields,
     bbox |-> List(<<Num(20), Num(20), Num(60), Num(40)>>),
     new_value |-> Num(65000),
     page_num |-> Num(0),
     font_size |-> Num(80),
     color |-> List(<<Num(0), Num(50), Num(100)>>),
     id |-> 1, hr |-> FALSE, rc |-> 1, redact |-> "ok"]
G1 == [G0 EXCEPT !.page_num = Num(1), !.id = 2, !.hr = TRUE, !.new_value = Num(MaxNewValue)]
GInsertFails == [G0 EXCEPT !.id = 3, !.rc = 0]
BadColor == [G0 EXCEPT !.id = 4, !.color = List(<<Num(0), Num(ColorMax + 1), Num(0)>>)]
\* Structurally valid, but the bbox reaches beyond the page, or there is no
\* such page.
GBeyondPage == [G0 EXCEPT !.id = 5, !.bbox = List(<<Num(20), Num(20), Num(PageWidth + Tolerance + 1), Num(40)>>)]
GNoSuchPage == [G0 EXCEPT !.id = 6, !.page_num = Num(NPages)]
\* add_redact_annot raises ValueError for this request.
GRedactFails == [G0 EXCEPT !.id = 7, !.redact = "ValueError"]

\* Requests that may fill every position of a batch.
SmallPool == {G0, G1, GInsertFails, BadColor, GBeyondPage, GNoSuchPage, GRedactFails}

Junk == {Str, NaN, PosInf, NegInf, Num(-1), Huge}

\* Requests of which a batch holds at most one: G0 with one field changed.
OneOff ==
    {[G0 EXCEPT !.has = AllFields \ {f}] :
        f \in {"bbox", "new_value", "page_num", "font_size", "color", "id"}}
    \cup {[G0 EXCEPT !.bbox = NotAList],
          [G0 EXCEPT !.bbox = List(<<Num(20), Num(20), Num(60)>>)],
          [G0 EXCEPT !.bbox = List(<<Num(20), Num(20), Num(20), Num(40)>>)],
          [G0 EXCEPT !.bbox = List(<<Num(60), Num(20), Num(20), Num(40)>>)],
          [G0 EXCEPT !.bbox = List(<<Num(20), Num(40), Num(60), Num(40)>>)],
          [G0 EXCEPT !.bbox = List(<<Num(20), Num(20), Num(21), Num(40)>>)],
          [G0 EXCEPT !.bbox = List(<<Num(20), Num(20), Num(60), Num(21)>>)],
          [G0 EXCEPT !.bbox = List(<<Num(20), Num(20), Num(22), Num(22)>>)],
          [G0 EXCEPT !.bbox = List(<<Num(0), Num(0), Num(PageWidth + Tolerance), Num(PageHeight + Tolerance)>>)],
          [G0 EXCEPT !.bbox = List(<<Num(20), Num(20), Num(PageWidth + Tolerance + 1), Num(40)>>)],
          [G0 EXCEPT !.bbox = List(<<Num(20), Num(20), Num(60), Num(PageHeight + Tolerance + 1)>>)]}
    \cup {[G0 EXCEPT !.bbox = List([G0.bbox.items EXCEPT ![k] = x])] : k \in 1..4, x \in Junk}
    \cup {[G0 EXCEPT !.font_size = x] : x \in Junk \cup {Num(0), Num(1)}}
    \cup {[G0 EXCEPT !.new_value = x] :
            x \in Junk \cup {Num(0), Num(1), Num(MaxNewValue + 1)}}
    \cup {[G0 EXCEPT !.color = NotAList],
          [G0 EXCEPT !.color = List(<<Num(0), Num(0)>>)]}
    \cup {[G0 EXCEPT !.color = List([G0.color.items EXCEPT ![k] = x])] : k \in 1..3, x \in Junk}
    \cup {[G0 EXCEPT !.page_num = x] : x \in {Str, Num(-1), Num(NPages)}}
    \cup {[G0 EXCEPT !.rc = -1]}

MaxBatch == 2

\* The batches: 1..MaxBatch requests, at most one of them outside SmallPool.
Batches ==
    UNION {
        {b \in [1..n -> SmallPool \cup OneOff] :
            Cardinality({i \in 1..n : b[i] \notin SmallPool}) <= 1}
        : n \in 1..MaxBatch}

\* The paths of a call: input, output, what link.pdf points to (None: it is
\* a plain name) and whether out.pdf exists beforehand.  In the last one the
\* output is the input's name in capitals on a volume that folds case.
Scenarios ==
    {[in |-> "in.pdf", out |-> "out.pdf", link |-> None, old |-> FALSE],
     [in |-> "in.pdf", out |-> "out.pdf", link |-> None, old |-> TRUE],
     [in |-> "in.pdf", out |-> "in.pdf", link |-> None, old |-> FALSE],
     [in |-> "in.pdf", out |-> "./in.pdf", link |-> None, old |-> TRUE],
     [in |-> "in.pdf", out |-> "link.pdf", link |-> "in.pdf", old |-> FALSE],
     [in |-> "link.pdf", out |-> "in.pdf", link |-> "in.pdf", old |-> FALSE],
     [in |-> "in.pdf", out |-> "link.pdf", link |-> "out.pdf", old |-> TRUE],
     [in |-> "in.pdf", out |-> "IN.PDF", link |-> None, old |-> FALSE]}

NoResult == [success |-> TRUE, updated |-> <<>>, errors |-> <<>>]

\* update_prices is not running (the other specifications).
UpdIdle ==
    /\ u_pc = "none"
    /\ u_in = None
    /\ u_out = None
    /\ u_reqs = <<>>
    /\ u_res = NoResult
    /\ links = [n \in Names |-> None]
    /\ fs = [n \in Names |-> "absent"]
    /\ fs0 = fs
    /\ opened = FALSE
    /\ doc_ops = <<>>
    /\ io = <<>>

\* update_prices(input_pdf_path, output_pdf_path, price_updates) is called.
UpdInit ==
    /\ u_pc = "start"
    /\ \E sc \in Scenarios :
          /\ u_in = sc.in
          /\ u_out = sc.out
          /\ links = [n \in Names |-> IF n = "link.pdf" THEN sc.link ELSE None]
          /\ fs = [n \in Names |->
                     IF n = "in.pdf" THEN "original"
                     ELSE IF n = "out.pdf" /\ sc.old THEN "old"
                     ELSE "absent"]
    /\ u_reqs \in Batches
    /\ u_res = NoResult
    /\ fs0 = fs
    /\ opened = FALSE
    /\ doc_ops = <<>>
    /\ io = <<>>

\* ---- the steps of update_prices ----------------------------------------
Failure(errs) == [success |-> FALSE, updated |-> <<>>, errors |-> errs]

\* Mutant of WithError: the error is appended, success is left as it was.
WithError_SuccessKept(res, code) ==
    [success |-> res.success, updated |-> res.updated,
     errors |-> Append(res.errors, [index |-> 0, code |-> code])]

\* results after one more error: update_prices appends and clears success.
WithError(res, code) ==
    [success |-> FALSE, updated |-> res.updated,
     errors |-> Append(res.errors, [index |-> 0, code |-> code])]

\* The same-file check on the resolved paths.
CheckSamePath ==
    /\ u_pc = "start"
    /\ IF realpath(u_in) = realpath(u_out)
       THEN /\ u_pc' = "returned"
            /\ u_res' = Failure(<<[index |-> 0, code |-> "same_path"]>>)
       ELSE /\ u_pc' = "validate"
            /\ UNCHANGED u_res
    /\ UNCHANGED <<u_in, u_out, u_reqs, links, fs, fs0, opened, doc_ops, io>>
    /\ UNCHANGED <<storeVars, rlVars, rrVars, pvVars, shVars, coVars, ynVars, fpVars, exVars, fdVars, eqVars, mnVars, hpVars, lgVars, avVars>>

\* The pre-flight validation loop: returns at the first failing request.
Validate ==
    /\ u_pc = "validate"
    /\ LET e == FirstError(u_reqs, 1)
       IN  IF Len(e) = 0
           THEN u_pc' = "open" /\ UNCHANGED u_res
           ELSE IF e[1].code = "OverflowError"
           THEN u_pc' = "raised" /\ UNCHANGED u_res
           ELSE u_pc' = "returned" /\ u_res' = Failure(e)
    /\ UNCHANGED <<u_in, u_out, u_reqs, links, fs, fs0, opened, doc_ops, io>>
    /\ UNCHANGED <<storeVars, rlVars, rrVars, pvVars, shVars, coVars, ynVars, fpVars, exVars, fdVars, eqVars, mnVars, hpVars, lgVars, avVars>>

\* fitz.open(input_pdf_path): the document opens, or the call raises.
OpenDocument ==
    /\ u_pc = "open"
    /\ opened' = TRUE
    /\ \E ok \in BOOLEAN : u_pc' = IF ok THEN "pages" ELSE "raised"
    /\ UNCHANGED <<u_in, u_out, u_reqs, u_res, links, fs, fs0, doc_ops, io>>
    /\ UNCHANGED <<storeVars, rlVars, rrVars, pvVars, shVars, coVars, ynVars, fpVars, exVars, fdVars, eqVars, mnVars, hpVars, lgVars, avVars>>

\* The loop over the pages, on the document in memory: it runs through, or
\* an exception ends it (KeyError of a missing id; a corruption error
\* re-raised at any operation of the loop).
EditPages ==
    /\ u_pc = "pages"
    /\ LET r == ProcessPages(u_reqs, PageOrder(u_reqs, 1, <<>>), 1,
                             [errors |-> <<>>, updated |-> <<>>, ops |-> <<>>,
                              raised |-> FALSE])
       IN  \/ /\ ~r.raised
              /\ u_pc' = "mkstemp"
              /\ u_res' = [success |-> Len(r.errors) = 0,
                           updated |-> r.updated, errors |-> r.errors]
              /\ doc_ops' = r.ops
           \/ /\ u_pc' = "raised"
              /\ \E n \in 0..Len(r.ops) :
                    /\ r.raised => n = Len(r.ops)
                    /\ doc_ops' = SubSeq(r.ops, 1, n)
              /\ UNCHANGED u_res
    /\ UNCHANGED <<u_in, u_out, u_reqs, links, fs, fs0, opened, io>>
    /\ UNCHANGED <<storeVars, rlVars, rrVars, pvVars, shVars, coVars, ynVars, fpVars, exVars, fdVars, eqVars, mnVars, hpVars, lgVars, avVars>>

\* tempfile.mkstemp(dir=output_dir) and os.close(fd): an empty file with a
\* fresh name, or OSError, which nothing catches.
Mkstemp ==
    /\ u_pc = "mkstemp"
    /\ \/ /\ fs' = [fs EXCEPT ![TmpName] = "empty"]
          /\ io' = Append(io, "mkstemp")
          /\ u_pc' = "save"
       \/ /\ u_pc' = "raised"
          /\ UNCHANGED <<fs, io>>
    /\ UNCHANGED <<u_in, u_out, u_reqs, u_res, links, fs0, opened, doc_ops>>
    /\ UNCHANGED <<storeVars, rlVars, rrVars, pvVars, shVars, coVars, ynVars, fpVars, exVars, fdVars, eqVars, mnVars, hpVars, lgVars, avVars>>

\* Mutant of SaveBegin: the document is saved to the output path itself.
SaveBegin_InPlace ==
    /\ u_pc = "save"
    /\ fs' = [fs EXCEPT ![Entry(normpath(u_out))] = "partial"]
    /\ u_pc' = "saving"
    /\ UNCHANGED <<u_in, u_out, u_reqs, u_res, links, fs0, opened, doc_ops, io>>
    /\ UNCHANGED <<storeVars, rlVars, rrVars, pvVars, shVars, coVars, ynVars, fpVars, exVars, fdVars, eqVars, mnVars, hpVars, lgVars, avVars>>

\* doc.save(temp_path) starts writing: the temporary file is incomplete.
SaveBegin ==
    /\ u_pc = "save"
    /\ fs' = [fs EXCEPT ![TmpName] = "partial"]
    /\ u_pc' = "saving"
    /\ UNCHANGED <<u_in, u_out, u_reqs, u_res, links, fs0, opened, doc_ops, io>>
    /\ UNCHANGED <<storeVars, rlVars, rrVars, pvVars, shVars, coVars, ynVars, fpVars, exVars, fdVars, eqVars, mnVars, hpVars, lgVars, avVars>>

\* doc.save(temp_path) returns: the temporary file is the whole document.
SaveEnd ==
    /\ u_pc = "saving"
    /\ fs' = [fs EXCEPT ![TmpName] = "new"]
    /\ io' = Append(io, "save")
    /\ u_pc' = "replace"
    /\ UNCHANGED <<u_in, u_out, u_reqs, u_res, links, fs0, opened, doc_ops>>
    /\ UNCHANGED <<storeVars, rlVars, rrVars, pvVars, shVars, coVars, ynVars, fpVars, exVars, fdVars, eqVars, mnVars, hpVars, lgVars, avVars>>

\* doc.save raises.  The handlers remove the temporary file (best effort:
\* the removal may fail) and re-raise corruption errors or return the
\* error; any other exception class passes through with the file left.
SaveFail ==
    /\ u_pc \in {"save", "saving"}
    /\ \E e \in {"FileDataError", "OSError", "ValueError", "Other"}, removed \in BOOLEAN :
          /\ fs' = IF e # "Other" /\ removed THEN [fs EXCEPT ![TmpName] = "absent"] ELSE fs
          /\ io' = IF e # "Other" /\ removed THEN Append(io, "remove") ELSE io
          /\ IF e \in {"OSError", "ValueError"}
             THEN u_pc' = "returned" /\ u_res' = WithError(u_res, "save_failed")
             ELSE u_pc' = "raised" /\ UNCHANGED u_res
    /\ UNCHANGED <<u_in, u_out, u_reqs, links, fs0, opened, doc_ops>>
    /\ UNCHANGED <<storeVars, rlVars, rrVars, pvVars, shVars, coVars, ynVars, fpVars, exVars, fdVars, eqVars, mnVars, hpVars, lgVars, avVars>>

\* _replace_with_retry succeeds: os.replace renames the temporary file onto
\* the output path (a symbolic link there is replaced, not followed).
Replace ==
    /\ u_pc = "replace"
    /\ fs' = [fs EXCEPT ![Entry(normpath(u_out))] = fs[TmpName], ![TmpName] = "absent"]
    /\ links' = [links EXCEPT ![Entry(normpath(u_out))] = None]
    /\ io' = Append(io, "replace")
    /\ u_pc' = "verify"
    /\ UNCHANGED <<u_in, u_out, u_reqs, u_res, fs0, opened, doc_ops>>
    /\ UNCHANGED <<storeVars, rlVars, rrVars, pvVars, shVars, coVars, ynVars, fpVars, exVars, fdVars, eqVars, mnVars, hpVars, lgVars, avVars>>

\* _replace_with_retry raises OSError: best-effort removal, error returned.
ReplaceFail ==
    /\ u_pc = "replace"
    /\ \E removed \in BOOLEAN :
          /\ fs' = IF removed THEN [fs EXCEPT ![TmpName] = "absent"] ELSE fs
          /\ io' = IF removed THEN Append(io, "remove") ELSE io
    /\ u_res' = WithError(u_res, "replace_failed")
    /\ u_pc' = "returned"
    /\ UNCHANGED <<u_in, u_out, u_reqs, links, fs0, opened, doc_ops>>
    /\ UNCHANGED <<storeVars, rlVars, rrVars, pvVars, shVars, coVars, ynVars, fpVars, exVars, fdVars, eqVars, mnVars, hpVars, lgVars, avVars>>

\* The final check that the output exists and is not empty.
Verify ==
    /\ u_pc = "verify"
    /\ u_res' = IF Content(u_out) = "absent" THEN WithError(u_res, "output_missing")
                ELSE IF Content(u_out) = "empty" THEN WithError(u_res, "output_empty")
                ELSE u_res
    /\ u_pc' = "returned"
    /\ UNCHANGED <<u_in, u_out, u_reqs, links, fs, fs0, opened, doc_ops, io>>
    /\ UNCHANGED <<storeVars, rlVars, rrVars, pvVars, shVars, coVars, ynVars, fpVars, exVars, fdVars, eqVars, mnVars, hpVars, lgVars, avVars>>

\* The process dies (kill, power loss) between two steps.
Crash ==
    /\ u_pc \notin {"none", "returned", "raised", "crashed"}
    /\ u_pc' = "crashed"
    /\ UNCHANGED <<u_in, u_out, u_reqs, u_res, links, fs, fs0, opened, doc_ops, io>>
    /\ UNCHANGED <<storeVars, rlVars, rrVars, pvVars, shVars, coVars, ynVars, fpVars, exVars, fdVars, eqVars, mnVars, hpVars, lgVars, avVars>>

UpdNext ==
    \/ CheckSamePath
    \/ Validate
    \/ OpenDocument
    \/ EditPages
    \/ Mkstemp
    \/ SaveBegin
    \/ SaveEnd
    \/ SaveFail
    \/ Replace
    \/ ReplaceFail
    \/ Verify
    \/ Crash

(***************************************************************************)
(* _replace_with_retry (update_pdf.py)                                     *)
(***************************************************************************)
WINDOWS_REPLACE_MAX_RETRIES == 5
\* WINDOWS_REPLACE_INITIAL_DELAY = 0.1 s, in tenths of a second
WINDOWS_REPLACE_INITIAL_DELAY == 1
WINDOWS_REPLACE_BACKOFF_FACTOR == 2

Platforms == {"win32", "linux", "darwin"}
\* What os.replace raises: PermissionError (the target is locked or access
\* is denied) or another OSError.
LockErrors == {"PermissionError: sharing violation", "PermissionError: access denied"}
OtherErrors == {"OSError: disk full", "FileNotFoundError"}
Returned == "returned"

\* _replace_with_retry is not running (the other specifications).
RRIdle ==
    /\ platform = "linux"
    /\ rr_pc = "none"
    /\ attempt = 0
    /\ delay = 0
    /\ last_error = None
    /\ rr_log = <<>>
    /\ rr_out = None

\* _replace_with_retry(temp_path, output_path) is called.
RRInit ==
    /\ platform \in Platforms
    /\ rr_pc = "start"
    /\ attempt = 0
    /\ delay = 0
    /\ last_error = None
    /\ rr_log = <<>>
    /\ rr_out = None

ReplaceCall(res) == [call |-> "os.replace", arg |-> res]
SleepCall(d) == [call |-> "time.sleep", arg |-> d]

\* sys.platform != 'win32': one os.replace, its error (if any) propagates.
RRSingleAttempt ==
    /\ rr_pc = "start"
    /\ platform # "win32"
    /\ \E res \in {Returned} \cup LockErrors \cup OtherErrors :
          /\ rr_log' = Append(rr_log, ReplaceCall(res))
          /\ rr_out' = res
    /\ rr_pc' = "done"
    /\ UNCHANGED <<platform, attempt, delay, last_error>>
    /\ UNCHANGED <<storeVars, rlVars, updVars, pvVars, shVars, coVars, ynVars, fpVars, exVars, fdVars, eqVars, mnVars, hpVars, lgVars, avVars>>

\* win32: last_error = None, delay = WINDOWS_REPLACE_INITIAL_DELAY, and the
\* for loop starts with attempt 0.
RREnterLoop ==
    /\ rr_pc = "start"
    /\ platform = "win32"
    /\ last_error' = None
    /\ delay' = WINDOWS_REPLACE_INITIAL_DELAY
    /\ attempt' = 0
    /\ rr_pc' = "try"
    /\ UNCHANGED <<platform, rr_log, rr_out>>
    /\ UNCHANGED <<storeVars, rlVars, updVars, pvVars, shVars, coVars, ynVars, fpVars, exVars, fdVars, eqVars, mnVars, hpVars, lgVars, avVars>>

\* Mutant of RRAttempt: every OSError is retried like a PermissionError.
RRAttempt_RetryAnyError ==
    /\ rr_pc = "try"
    /\ attempt < WINDOWS_REPLACE_MAX_RETRIES
    /\ \E res \in {Returned} \cup LockErrors \cup OtherErrors :
          /\ rr_log' = Append(rr_log, ReplaceCall(res))
          /\ IF res = Returned
             THEN /\ rr_out' = Returned
                  /\ rr_pc' = "done"
                  /\ UNCHANGED <<attempt, last_error>>
             ELSE /\ last_error' = res
                  /\ UNCHANGED rr_out
                  /\ IF attempt < WINDOWS_REPLACE_MAX_RETRIES - 1
                     THEN rr_pc' = "sleep" /\ UNCHANGED attempt
                     ELSE rr_pc' = "try" /\ attempt' = attempt + 1
    /\ UNCHANGED <<platform, delay>>
    /\ UNCHANGED <<storeVars, rlVars, updVars, pvVars, shVars, coVars, ynVars, fpVars, exVars, fdVars, eqVars, mnVars, hpVars, lgVars, avVars>>

\* One pass of the loop body up to the sleep: os.replace returns (return),
\* raises PermissionError (remember it; sleep unless this was the last
\* attempt) or raises another OSError (re-raised at once).
RRAttempt ==
    /\ rr_pc = "try"
    /\ attempt < WINDOWS_REPLACE_MAX_RETRIES
    /\ \E res \in {Returned} \cup LockErrors \cup OtherErrors :
          /\ rr_log' = Append(rr_log, ReplaceCall(res))
          /\ IF res = Returned
             THEN /\ rr_out' = Returned
                  /\ rr_pc' = "done"
                  /\ UNCHANGED <<attempt, last_error>>
             ELSE IF res \in LockErrors
             THEN /\ last_error' = res
                  /\ UNCHANGED rr_out
                  /\ IF attempt < WINDOWS_REPLACE_MAX_RETRIES - 1
                     THEN rr_pc' = "sleep" /\ UNCHANGED attempt
                     ELSE rr_pc' = "try" /\ attempt' = attempt + 1
             ELSE /\ rr_out' = res
                  /\ rr_pc' = "done"
                  /\ UNCHANGED <<attempt, last_error>>
    /\ UNCHANGED <<platform, delay>>
    /\ UNCHANGED <<storeVars, rlVars, updVars, pvVars, shVars, coVars, ynVars, fpVars, exVars, fdVars, eqVars, mnVars, hpVars, lgVars, avVars>>

\* Mutant of RRSleep: the delay is not multiplied.
RRSleep_ConstantDelay ==
    /\ rr_pc = "sleep"
    /\ rr_log' = Append(rr_log, SleepCall(delay))
    /\ attempt' = attempt + 1
    /\ rr_pc' = "try"
    /\ UNCHANGED <<platform, delay, last_error, rr_out>>
    /\ UNCHANGED <<storeVars, rlVars, updVars, pvVars, shVars, coVars, ynVars, fpVars, exVars, fdVars, eqVars, mnVars, hpVars, lgVars, avVars>>

\* time.sleep(delay); delay *= WINDOWS_REPLACE_BACKOFF_FACTOR; next attempt.
RRSleep ==
    /\ rr_pc = "sleep"
    /\ rr_log' = Append(rr_log, SleepCall(delay))
    /\ delay' = delay * WINDOWS_REPLACE_BACKOFF_FACTOR
    /\ attempt' = attempt + 1
    /\ rr_pc' = "try"
    /\ UNCHANGED <<platform, last_error, rr_out>>
    /\ UNCHANGED <<storeVars, rlVars, updVars, pvVars, shVars, coVars, ynVars, fpVars, exVars, fdVars, eqVars, mnVars, hpVars, lgVars, avVars>>

\* The loop is over without a return: raise last_error.
RRExhausted ==
    /\ rr_pc = "try"
    /\ attempt >= WINDOWS_REPLACE_MAX_RETRIES
    /\ rr_out' = last_error
    /\ rr_pc' = "done"
    /\ UNCHANGED <<platform, attempt, delay, last_error, rr_log>>
    /\ UNCHANGED <<storeVars, rlVars, updVars, pvVars, shVars, coVars, ynVars, fpVars, exVars, fdVars, eqVars, mnVars, hpVars, lgVars, avVars>>

RRNext ==
    \/ RRSingleAttempt
    \/ RREnterLoop
    \/ RRAttempt
    \/ RRSleep
    \/ RRExhausted

(***************************************************************************)
(* validate_pdf_path (backend.py)                                          *)
(***************************************************************************)
\* A path is a root flag and its segments.  The names a segment may be: a
\* directory, "..", files, and symbolic links (to a sibling, or to itself).
SegNames == {"dir", "..", "b.pdf", "B.PDF", "notes.txt", ".pdf", "link.pdf", "doc", "loop.pdf"}
MaxSegs == 2

MkPath(abs, segs) == [abs |-> abs, segs |-> segs]
EmptyPath == MkPath(FALSE, <<>>)
RawPaths ==
    {MkPath(a, sg) : a \in BOOLEAN, sg \in UNION {[1..n -> SegNames] : n \in 0..MaxSegs}}

\* The working directory, which a relative path is resolved against.
Cwd == <<"home">>

\* What a symbolic link points to (None: the name is no link).
LinkTarget(name) ==
    CASE name = "link.pdf" -> "notes.txt"
      [] name = "doc" -> "b.pdf"
      [] name = "loop.pdf" -> "loop.pdf"
      [] OTHER -> None

\* Path.resolve(strict=False): from the root or the working directory, ".."
\* drops the last segment, a link is replaced by its target, a link loop
\* raises RuntimeError.
RECURSIVE Walk(_, _)
Walk(done, rest) ==
    IF rest = <<>> THEN [ok |-> TRUE, abs |-> TRUE, segs |-> done]
    ELSE LET sg == Head(rest)
         IN  IF sg = ".."
             THEN Walk(IF done = <<>> THEN done ELSE SubSeq(done, 1, Len(done) - 1), Tail(rest))
             ELSE IF LinkTarget(sg) = sg THEN [ok |-> FALSE, abs |-> TRUE, segs |-> <<>>]
             ELSE IF LinkTarget(sg) # None THEN Walk(Append(done, LinkTarget(sg)), Tail(rest))
             ELSE Walk(Append(done, sg), Tail(rest))

resolve(p) == Walk(IF p.abs THEN <<>> ELSE Cwd, p.segs)

\* PurePath.suffix of the last segment: from the last dot on, empty when the
\* name has no dot or only a leading one.
suffix(segs) ==
    IF segs = <<>> THEN ""
    ELSE CASE segs[Len(segs)] \in {"b.pdf", "link.pdf", "loop.pdf"} -> ".pdf"
           [] segs[Len(segs)] = "B.PDF" -> ".PDF"
           [] segs[Len(segs)] = "notes.txt" -> ".txt"
           [] OTHER -> ""

\* Mutant of lower: the extension is compared as written.
lower_AsWritten(ext) == ext

\* str.lower on an extension
lower(ext) == IF ext = ".PDF" THEN ".pdf" ELSE ext

\* No call yet.
NotCalled == [kind |-> "none", msg |-> "", path |-> EmptyPath]

RaiseValueError(msg) == [kind |-> "ValueError", msg |-> msg, path |-> EmptyPath]

validate_pdf_path(p) ==
    IF p = EmptyPath THEN RaiseValueError("Path cannot be empty")
    ELSE LET r == resolve(p)
         IN  IF ~r.ok THEN RaiseValueError("Invalid path")
             ELSE IF ~r.abs THEN RaiseValueError("Path must be absolute")
             ELSE IF \E k \in 1..Len(p.segs) : p.segs[k] = ".."
                  THEN RaiseValueError("Path traversal not allowed")
             ELSE IF lower(suffix(r.segs)) # ".pdf"
                  THEN RaiseValueError("File must have a .pdf extension")
             ELSE [kind |-> "returned", msg |-> "", path |-> MkPath(r.abs, r.segs)]

\* validate_pdf_path is not called (the other specifications).
PVIdle ==
    /\ pv_in = EmptyPath
    /\ pv_out = NotCalled

PVInit ==
    /\ pv_in \in RawPaths
    /\ pv_out = NotCalled

\* The call validate_pdf_path(pv_in).
ValidatePath ==
    /\ pv_out = NotCalled
    /\ pv_in \in RawPaths
    /\ pv_out' = validate_pdf_path(pv_in)
    /\ UNCHANGED pv_in
    /\ UNCHANGED <<storeVars, rlVars, updVars, rrVars, shVars, coVars, ynVars, fpVars, exVars, fdVars, eqVars, mnVars, hpVars, lgVars, avVars>>

(***************************************************************************)
(* POST /api/shutdown and delayed_shutdown (backend.py).                    *)
(***************************************************************************)
MaxShutdownRequests == 2

\* secrets.token_urlsafe(32): the secret of this run.
Secret == "secret"

\* What client_address[0] can be: two addresses the handler accepts, one
\* more address of the loopback network, one remote address.
ClientAddrs == {"127.0.0.1", "::1", "127.0.0.2", "10.0.0.1"}

\* JSON values a token can be.  data.get('token') of an object without the
\* key is None.
JNone == [t |-> "none", s |-> "", ascii |-> TRUE]
JStr(x) == [t |-> "str", s |-> x, ascii |-> TRUE]
JNonAscii == [t |-> "str", s |-> "s(e-acute)cret", ascii |-> FALSE]
JNum == [t |-> "num", s |-> "123", ascii |-> TRUE]

Tokens == {JNone, JStr(Secret), JStr("guess"), JNonAscii, JNum}

\* Request bodies: none, text that is not JSON, a JSON list, a JSON object.
EmptyBody == [kind |-> "empty", token |-> JNone]
NotJson == [kind |-> "invalid", token |-> JNone]
JList == [kind |-> "list", token |-> JNone]
JObject(tok) == [kind |-> "object", token |-> tok]

Bodies == {EmptyBody, NotJson, JList} \cup {JObject(tok) : tok \in Tokens}

is_localhost_request(addr) == addr \in {"127.0.0.1", "::1", "localhost"}

\* data = json.loads(body) if body else {}, with {} on JSONDecodeError.
json_loads(body) ==
    IF body.kind \in {"empty", "invalid"} THEN JObject(JNone) ELSE body

\* bool(v) of a JSON value.
Truthy(v) == v.t # "none" /\ v.s # "" /\ v.s # "0"

\* Mutant of compare_digest: any two values compare equal.
compare_digest_AlwaysEqual(a, b) == [raised |-> FALSE, value |-> TRUE]

\* secrets.compare_digest(a, b): two ASCII strings are compared, anything
\* else is a TypeError.
compare_digest(a, b) ==
    IF a.t = "str" /\ b.t = "str" /\ a.ascii /\ b.ascii
    THEN [raised |-> FALSE, value |-> a.s = b.s]
    ELSE [raised |-> TRUE, value |-> FALSE]

\* How the shutdown branch answers a request: a status, or the exception
\* that leaves the handler.
Answer(status) == [status |-> status, raised |-> ""]
Raises(e) == [status |-> 0, raised |-> e]
Pending == [status |-> 0, raised |-> "pending"]

ShutdownAnswer(addr, body, secret) ==
    IF ~is_localhost_request(addr) THEN Answer(403)
    ELSE LET data == json_loads(body)
         IN  IF data.kind # "object" THEN Raises("AttributeError")
             ELSE IF secret = None \/ ~Truthy(data.token) THEN Answer(401)
             ELSE LET c == compare_digest(data.token, JStr(secret))
                  IN  IF c.raised THEN Raises("TypeError")
                      ELSE IF ~c.value THEN Answer(401)
                      ELSE Answer(200)

Event(ev, rid) == [ev |-> ev, rid |-> rid]

\* The module is imported; main has not run and no request has come.
SHIdle ==
    /\ shutdown_token = None
    /\ server_instance = None
    /\ server_state = "imported"
    /\ sh_pc = "idle"
    /\ sh_reqs = <<>>
    /\ sh_threads = {}
    /\ sh_log = <<>>

\* main: the secret is generated, the server is stored, serve_forever runs.
MainStart ==
    /\ server_state = "imported"
    /\ sh_pc = "idle"
    /\ shutdown_token' = Secret
    /\ server_instance' = "server"
    /\ server_state' = "serving"
    /\ UNCHANGED <<sh_pc, sh_reqs, sh_threads, sh_log>>
    /\ UNCHANGED <<storeVars, rlVars, updVars, rrVars, pvVars, coVars, ynVars, fpVars, exVars, fdVars, eqVars, mnVars, hpVars, lgVars, avVars>>

\* do_POST reaches the /api/shutdown branch with a request that passed the
\* rate limit and whose body was read and decoded.
ShutdownReceive ==
    /\ sh_pc = "idle"
    /\ server_state \in {"imported", "serving"}
    /\ Len(sh_reqs) < MaxShutdownRequests
    /\ \E addr \in ClientAddrs, body \in Bodies :
          sh_reqs' = Append(sh_reqs, [addr |-> addr, body |-> body,
                                      answer |-> Pending])
    /\ sh_pc' = "route"
    /\ UNCHANGED <<shutdown_token, server_instance, server_state, sh_threads, sh_log>>
    /\ UNCHANGED <<storeVars, rlVars, updVars, rrVars, pvVars, coVars, ynVars, fpVars, exVars, fdVars, eqVars, mnVars, hpVars, lgVars, avVars>>

Current == sh_reqs[Len(sh_reqs)]

CurrentAnswer == ShutdownAnswer(Current.addr, Current.body, shutdown_token)

Answered(a) == [sh_reqs EXCEPT ![Len(sh_reqs)].answer = a]

\* A caller that is not localhost: 403 and return.
ShutdownForbidden ==
    /\ sh_pc = "route"
    /\ CurrentAnswer = Answer(403)
    /\ sh_reqs' = Answered(Answer(403))
    /\ sh_log' = Append(sh_log, Event("response", Len(sh_reqs)))
    /\ sh_pc' = "idle"
    /\ UNCHANGED <<shutdown_token, server_instance, server_state, sh_threads>>
    /\ UNCHANGED <<storeVars, rlVars, updVars, rrVars, pvVars, coVars, ynVars, fpVars, exVars, fdVars, eqVars, mnVars, hpVars, lgVars, avVars>>

\* No secret, no token, or a token that compares different: 401 and return.
ShutdownUnauthorized ==
    /\ sh_pc = "route"
    /\ CurrentAnswer = Answer(401)
    /\ sh_reqs' = Answered(Answer(401))
    /\ sh_log' = Append(sh_log, Event("response", Len(sh_reqs)))
    /\ sh_pc' = "idle"
    /\ UNCHANGED <<shutdown_token, server_instance, server_state, sh_threads>>
    /\ UNCHANGED <<storeVars, rlVars, updVars, rrVars, pvVars, coVars, ynVars, fpVars, exVars, fdVars, eqVars, mnVars, hpVars, lgVars, avVars>>

\* data.get on a value that is no object, or compare_digest on a token that
\* is no ASCII string: the exception leaves do_POST, nothing is sent.
ShutdownRaises ==
    /\ sh_pc = "route"
    /\ CurrentAnswer.raised # ""
    /\ sh_reqs' = Answered(CurrentAnswer)
    /\ sh_pc' = "idle"
    /\ UNCHANGED <<shutdown_token, server_instance, server_state, sh_threads, sh_log>>
    /\ UNCHANGED <<storeVars, rlVars, updVars, rrVars, pvVars, coVars, ynVars, fpVars, exVars, fdVars, eqVars, mnVars, hpVars, lgVars, avVars>>

\* The accepted request: send_json({'success': True, ...}).
ShutdownAcknowledge ==
    /\ sh_pc = "route"
    /\ CurrentAnswer = Answer(200)
    /\ sh_reqs' = Answered(Answer(200))
    /\ sh_log' = Append(sh_log, Event("response", Len(sh_reqs)))
    /\ sh_pc' = "start_thread"
    /\ UNCHANGED <<shutdown_token, server_instance, server_state, sh_threads>>
    /\ UNCHANGED <<storeVars, rlVars, updVars, rrVars, pvVars, coVars, ynVars, fpVars, exVars, fdVars, eqVars, mnVars, hpVars, lgVars, avVars>>

\* threading.Thread(target=delayed_shutdown, daemon=True).start()
ShutdownStartThread ==
    /\ sh_pc = "start_thread"
    /\ sh_threads' = sh_threads \cup {Len(sh_reqs)}
    /\ sh_log' = Append(sh_log, Event("thread", Len(sh_reqs)))
    /\ sh_pc' = "idle"
    /\ UNCHANGED <<shutdown_token, server_instance, server_state, sh_reqs>>
    /\ UNCHANGED <<storeVars, rlVars, updVars, rrVars, pvVars, coVars, ynVars, fpVars, exVars, fdVars, eqVars, mnVars, hpVars, lgVars, avVars>>

\* delayed_shutdown, after its sleep: server_instance.shutdown() if the
\* server is stored.  serve_forever takes up no request after that.
DelayedShutdown ==
    /\ \E r \in sh_threads :
          /\ sh_threads' = sh_threads \ {r}
          /\ IF server_instance # None
             THEN /\ sh_log' = Append(sh_log, Event("shutdown", r))
                  /\ server_state' = "stopping"
             ELSE UNCHANGED <<sh_log, server_state>>
    /\ UNCHANGED <<shutdown_token, server_instance, sh_pc, sh_reqs>>
    /\ UNCHANGED <<storeVars, rlVars, updVars, rrVars, pvVars, coVars, ynVars, fpVars, exVars, fdVars, eqVars, mnVars, hpVars, lgVars, avVars>>

\* serve_forever returns once the request in hand is finished; main returns
\* and the daemon threads end with the process.
ServeForeverExit ==
    /\ server_state = "stopping"
    /\ sh_pc = "idle"
    /\ server_state' = "stopped"
    /\ sh_threads' = {}
    /\ UNCHANGED <<shutdown_token, server_instance, sh_pc, sh_reqs, sh_log>>
    /\ UNCHANGED <<storeVars, rlVars, updVars, rrVars, pvVars, coVars, ynVars, fpVars, exVars, fdVars, eqVars, mnVars, hpVars, lgVars, avVars>>

ShutdownHandler ==
    \/ ShutdownForbidden
    \/ ShutdownUnauthorized
    \/ ShutdownRaises
    \/ ShutdownAcknowledge
    \/ ShutdownStartThread

SHNext ==
    \/ MainStart
    \/ ShutdownReceive
    \/ ShutdownHandler
    \/ DelayedShutdown
    \/ ServeForeverExit

(***************************************************************************)
(* APIHandler._get_cors_origin, _send_cors_headers and the requests that   *)
(* are answered with them (backend.py).                                    *)
(***************************************************************************)
\* An origin is the sequence of its characters.  "^2" stands for the
\* character SUPERSCRIPT TWO, which str.isdigit accepts and int refuses.
HttpLocalhost == <<"h", "t", "t", "p", ":", "/", "/", "l", "o", "c", "a", "l", "h", "o", "s", "t">>
HttpLoopback == <<"h", "t", "t", "p", ":", "/", "/", "1", "2", "7", ".", "0", ".", "0", ".", "1">>
HttpsLocalhost == <<"h", "t", "t", "p", "s", ":", "/", "/", "l", "o", "c", "a", "l", "h", "o", "s", "t">>
LookAlike == <<"h", "t", "t", "p", ":", "/", "/", "l", "o", "c", "a", "l", "h", "o", "s", "t", ".", "a", "t", "t", "a", "c", "k", "e", "r", ".", "c", "o", "m">>
FileScheme == <<"f", "i", "l", "e", ":", "/", "/">>

Digits == {"0", "1", "2", "3", "4", "5", "6", "7", "8", "9"}

MaxTail == 2

TailChars == {":", "0", "8", "/", "x", "^2"}

\* The texts tried as ports, beyond those of the tails.
PortTexts ==
    {<<"1">>, <<"0", "8", "0">>, <<"8", "0", "8", "0">>, <<"6", "5", "5", "3", "5">>,
     <<"6", "5", "5", "3", "6">>, <<"9", "9", "9", "9", "9">>, <<"8", "0", ":", "8", "0">>, <<"8", "0", "/", "x">>}

Tails ==
    UNION {[1..n -> TailChars] : n \in 0..MaxTail}
    \cup {<<":">> \o p : p \in PortTexts}

\* self.headers.get('Origin', ''): the empty sequence when there is none.
Origins ==
    {b \o t : b \in {<<>>, HttpLocalhost, HttpLoopback, HttpsLocalhost, LookAlike, FileScheme},
              t \in Tails}

startswith(s, p) == Len(s) >= Len(p) /\ SubSeq(s, 1, Len(p)) = p

\* origin.split(':', 2)[-1]: what follows the second ':' (the first when
\* there is one only, the whole text when there is none).
LastOfSplit(s) ==
    LET colons == {i \in 1..Len(s) : s[i] = ":"}
        first == CHOOSE i \in colons : \A j \in colons : i <= j
        rest == colons \ {first}
        second == CHOOSE i \in rest : \A j \in rest : i <= j
    IN  IF colons = {} THEN s
        ELSE IF rest = {} THEN SubSeq(s, first + 1, Len(s))
        ELSE SubSeq(s, second + 1, Len(s))

\* str.isdigit(): not empty, and every character has the digit property.
isdigit(s) == Len(s) > 0 /\ \A i \in 1..Len(s) : s[i] \in Digits \cup {"^2"}

DigitValue(c) == CHOOSE v \in 0..9 : <<"0", "1", "2", "3", "4", "5", "6", "7", "8", "9">>[v + 1] = c

\* int(s) of a text of decimal digits.
RECURSIVE DecimalValue(_)
DecimalValue(s) ==
    IF Len(s) = 0 THEN 0
    ELSE 10 * DecimalValue(SubSeq(s, 1, Len(s) - 1)) + DigitValue(s[Len(s)])

\* int(s) raises ValueError on a character that is no decimal digit.
IntRaises(s) == \E i \in 1..Len(s) : s[i] \notin Digits

CorsOrigin(o) == [kind |-> "origin", origin |-> o]
CorsNone == [kind |-> "none", origin |-> <<>>]
CorsRaised == [kind |-> "ValueError", origin |-> <<>>]

\* 1 <= port_num <= 65535
PortInRange(n) == 1 <= n /\ n <= 65535

\* _get_cors_origin
get_cors_origin(origin) ==
    IF origin = <<>> THEN CorsNone
    ELSE IF origin \in {HttpLocalhost, HttpLoopback} THEN CorsOrigin(origin)
    ELSE IF (startswith(origin, HttpLocalhost \o <<":">>)
             \/ startswith(origin, HttpLoopback \o <<":">>))
            /\ isdigit(LastOfSplit(origin))
         THEN IF IntRaises(LastOfSplit(origin)) THEN CorsRaised
              ELSE IF PortInRange(DecimalValue(LastOfSplit(origin))) THEN CorsOrigin(origin)
              ELSE IF origin = FileScheme THEN CorsOrigin(origin)
              ELSE CorsNone
    ELSE IF origin = FileScheme THEN CorsOrigin(origin)
    ELSE CorsNone

MaxCorsRequests == 2

Routes == {"/api/load", "/api/export"}

NoRequest == [origin |-> <<>>, route |-> "none", valid |-> FALSE]
NoResponse == [cors |-> CorsNone, headers |-> FALSE, sent |-> FALSE]

\* No request is being handled (the other specifications).
COIdle ==
    /\ co_req = NoRequest
    /\ co_pc = "idle"
    /\ co_doc = [current |-> None, output |-> "absent", handled |-> 0]
    /\ co_resp = NoResponse

\* do_POST takes up a request for /api/load or /api/export; valid tells
\* whether its body and paths pass the handler's validation.
CorsReceive ==
    /\ co_pc = "idle"
    /\ co_doc.handled < MaxCorsRequests
    /\ \E o \in Origins, r \in Routes, v \in BOOLEAN :
          co_req' = [origin |-> o, route |-> r, valid |-> v]
    /\ co_pc' = "handle"
    /\ UNCHANGED co_resp
    /\ co_doc' = [co_doc EXCEPT !.handled = @ + 1]
    /\ UNCHANGED <<storeVars, rlVars, updVars, rrVars, pvVars, shVars, ynVars, fpVars, exVars, fdVars, eqVars, mnVars, hpVars, lgVars, avVars>>

\* The body of the route: /api/load publishes the document it loaded,
\* /api/export writes the output file of the document loaded; an invalid
\* request, or an export with nothing loaded, is answered without either.
\* The Origin header is not read here.
CorsHandle ==
    /\ co_pc = "handle"
    /\ co_doc' =
          IF ~co_req.valid THEN co_doc
          ELSE IF co_req.route = "/api/load" THEN [co_doc EXCEPT !.current = "a.pdf"]
          ELSE IF co_doc.current = None THEN co_doc
          ELSE [co_doc EXCEPT !.output = "written"]
    /\ co_pc' = "respond"
    /\ UNCHANGED <<co_req, co_resp>>
    /\ UNCHANGED <<storeVars, rlVars, updVars, rrVars, pvVars, shVars, ynVars, fpVars, exVars, fdVars, eqVars, mnVars, hpVars, lgVars, avVars>>

\* send_json / send_pdf: send_response, _send_cors_headers, end_headers and
\* the body; a ValueError of _get_cors_origin ends the handler instead.
CorsRespond ==
    /\ co_pc = "respond"
    /\ LET c == get_cors_origin(co_req.origin)
       IN  co_resp' = [cors |-> c, headers |-> c.kind = "origin",
                       sent |-> c.kind # "ValueError"]
    /\ co_pc' = "responded"
    /\ UNCHANGED <<co_req, co_doc>>
    /\ UNCHANGED <<storeVars, rlVars, updVars, rrVars, pvVars, shVars, ynVars, fpVars, exVars, fdVars, eqVars, mnVars, hpVars, lgVars, avVars>>

\* do_POST is left; the handler and its request are gone.
CorsFinish ==
    /\ co_pc = "responded"
    /\ co_pc' = "idle"
    /\ co_req' = NoRequest
    /\ co_resp' = NoResponse
    /\ UNCHANGED co_doc
    /\ UNCHANGED <<storeVars, rlVars, updVars, rrVars, pvVars, shVars, ynVars, fpVars, exVars, fdVars, eqVars, mnVars, hpVars, lgVars, avVars>>

CorsNext ==
    \/ CorsReceive
    \/ CorsHandle
    \/ CorsRespond
    \/ CorsFinish

(***************************************************************************)
(* The output name derived by /api/export (backend.py, increment_year).    *)
(***************************************************************************)
MaxParts == 4

\* A name is the sequence of its characters, put together from these parts.
NameParts ==
    {<<"2", "0", "2", "5">>, <<"2", "0", "9", "9">>, <<"2", "0", "2", "0">>, <<"2", "0", "1", "9">>,
     <<"_">>, <<"-">>, <<".">>, <<" ">>, <<"x">>, <<"7">>}

RECURSIVE NamesOf(_)
NamesOf(n) ==
    IF n = 0 THEN {<<>>}
    ELSE NamesOf(n - 1) \cup {a \o p : a \in NamesOf(n - 1), p \in NameParts}

\* Path(pdf_path).stem of a loaded document: not empty.
InputNames == NamesOf(MaxParts) \ {<<>>}

\* [_\s.\-]
Separators == {"_", " ", ".", "-"}

\* Mutant of YearAt: the lookbehind is dropped.
YearAt_NoLookbehind(s, i) ==
    /\ i + 3 <= Len(s)
    /\ s[i] = "2" /\ s[i + 1] = "0"
    /\ s[i + 2] \in {"2", "3", "4", "5", "6", "7", "8", "9"}
    /\ s[i + 3] \in Digits
    /\ (i + 4 > Len(s) \/ s[i + 4] \in Separators)

\* year_pattern matches at position i:
\* (?:^|(?<=[_\s.\-]))(20[2-9]\d)(?=[_\s.\-]|$)
YearAt(s, i) ==
    /\ i + 3 <= Len(s)
    /\ (i = 1 \/ s[i - 1] \in Separators)
    /\ s[i] = "2" /\ s[i + 1] = "0"
    /\ s[i + 2] \in {"2", "3", "4", "5", "6", "7", "8", "9"}
    /\ s[i + 3] \in Digits
    /\ (i + 4 > Len(s) \/ s[i + 4] \in Separators)

\* str(n) of a natural number.
RECURSIVE str(_)
str(n) ==
    IF n < 10 THEN <<<<"0", "1", "2", "3", "4", "5", "6", "7", "8", "9">>[n + 1]>>
    ELSE str(n \div 10) \o <<<<"0", "1", "2", "3", "4", "5", "6", "7", "8", "9">>[(n % 10) + 1]>>

\* increment_year(match): the text that replaces the match.
increment_year(group) ==
    LET year == DecimalValue(group)
    IN  IF 2020 <= year /\ year <= 2099 THEN str(year + 1) ELSE group

\* re.sub(year_pattern, increment_year, input_name, count=1): the leftmost
\* match is replaced.
SubFirstYear(s) ==
    LET at == {i \in 1..Len(s) : YearAt(s, i)}
        i == CHOOSE k \in at : \A j \in at : k <= j
    IN  IF at = {} THEN s
        ELSE SubSeq(s, 1, i - 1) \o increment_year(SubSeq(s, i, i + 3))
             \o SubSeq(s, i + 4, Len(s))

\* output_name: the substituted name, or input_name + '_updated' when the
\* substitution changed nothing.
output_name(input_name) ==
    IF SubFirstYear(input_name) = input_name
    THEN input_name \o <<"_", "u", "p", "d", "a", "t", "e", "d">>
    ELSE SubFirstYear(input_name)

\* No name is being derived (the other specifications).
YNIdle ==
    /\ yn_in = <<>>
    /\ yn_out = <<>>

YNInit ==
    /\ yn_in \in InputNames
    /\ yn_out = <<>>

\* The export derives the output name of the loaded document.
DeriveName ==
    /\ yn_in # <<>>
    /\ yn_out = <<>>
    /\ yn_out' = output_name(yn_in)
    /\ UNCHANGED yn_in
    /\ UNCHANGED <<storeVars, rlVars, updVars, rrVars, pvVars, shVars, coVars, fpVars, exVars, fdVars, eqVars, mnVars, hpVars, lgVars, avVars>>

(***************************************************************************)
(* format_new_price (update_pdf.py), PRICE_PATTERN and parse_price_value   *)
(* (extract_prices.py).  Texts are sequences of characters; a number is    *)
(* its whole part and its fraction in thousandths.                         *)
(***************************************************************************)
MAX_PRICE_VALUE == 10000000

Value(w, f) == [whole |-> w, frac |-> f]

\* Fractions, in thousandths, that are no rounding ties.
Fracs == {0, 1, 4, 6, 10, 230, 234, 500, 996, 999}

Wholes == {0, 1, 12, 999, 1000, 1234567, 9999999, 10000000}

\* The new values that pass the validation of update_prices:
\* 0 < new_value <= 10,000,000.
NewValues ==
    {v \in {Value(w, f) : w \in Wholes, f \in Fracs} :
        /\ v.whole > 0 \/ v.frac > 0
        /\ v.whole < 10000000 \/ (v.whole = 10000000 /\ v.frac = 0)}

\* f"{n:,}": the digits in groups of three.
RECURSIVE Commas(_)
Commas(s) ==
    IF Len(s) <= 3 THEN s
    ELSE Commas(SubSeq(s, 1, Len(s) - 3)) \o <<",">> \o SubSeq(s, Len(s) - 2, Len(s))

\* Two digits of a number below 100.
TwoDigits(n) == IF n < 10 THEN <<"0">> \o str(n) ELSE str(n)

\* f"{new_value:,.2f}" rounds to hundredths: the whole part and the cents.
Cents(v) ==
    IF (v.frac + 5) \div 10 = 100 THEN Value(v.whole + 1, 0)
    ELSE Value(v.whole, (v.frac + 5) \div 10)

format_new_price(new_value, has_hr_suffix) ==
    (IF new_value.frac = 0
     THEN <<"$">> \o Commas(str(new_value.whole))
     ELSE <<"$">> \o Commas(str(Cents(new_value).whole)) \o <<".">>
          \o TwoDigits(Cents(new_value).frac))
    \o (IF has_hr_suffix THEN <<"/", "h", "r">> ELSE <<>>)

\* text.endswith('/hr')
EndsWithHr(s) == Len(s) >= 3 /\ SubSeq(s, Len(s) - 2, Len(s)) = <<"/", "h", "r">>

WithoutHr(s) == IF EndsWithHr(s) THEN SubSeq(s, 1, Len(s) - 3) ELSE s

\* Whether s ends with '.' and two digits.
EndsWithCents(s) ==
    Len(s) >= 3 /\ s[Len(s) - 2] = "." /\ s[Len(s) - 1] \in Digits /\ s[Len(s)] \in Digits

\* The lookahead 0(?:[.,]0*)?(?:/hr)?$ on the text after the '$'.
ZeroAmount(rest) ==
    LET body == WithoutHr(rest)
    IN  /\ Len(body) >= 1
        /\ body[1] = "0"
        /\ Len(body) >= 2 =>
              /\ body[2] \in {".", ","}
              /\ \A i \in 3..Len(body) : body[i] = "0"

\* PRICE_PATTERN.fullmatch(text):
\* \$(?!-)(?!0(?:[.,]0*)?(?:/hr)?$)[\d,]+(?:\.\d{2})?(?:/hr)?
FullMatch(text) ==
    /\ Len(text) >= 2
    /\ text[1] = "$"
    /\ LET body == WithoutHr(SubSeq(text, 2, Len(text)))
           ints == IF EndsWithCents(body) THEN SubSeq(body, 1, Len(body) - 3) ELSE body
       IN  /\ Len(ints) >= 1
           /\ \A i \in 1..Len(ints) : ints[i] \in Digits \cup {","}
           /\ ~ZeroAmount(SubSeq(text, 2, Len(text)))

\* PRICE_PATTERN.match(text): the pattern matches at the start of the text;
\* after the lookaheads one digit or comma is enough.
Match(text) ==
    /\ Len(text) >= 2
    /\ text[1] = "$"
    /\ text[2] \in Digits \cup {","}
    /\ ~ZeroAmount(SubSeq(text, 2, Len(text)))

\* text.replace('$', '').replace('/hr', '').replace(',', '') of a text
\* that has '/hr' at its end only.
Clean(text) ==
    LET Kept(c) == c \notin {"$", ","}
    IN  SelectSeq(WithoutHr(text), Kept)

ParseError == [raised |-> TRUE, value |-> Value(0, 0), has_hr |-> FALSE]

\* parse_price_value(text) of a text that matches the pattern: float(clean),
\* the range test, and the suffix flag.
parse_price_value(text) ==
    LET clean == Clean(text)
        ints == IF EndsWithCents(clean) THEN SubSeq(clean, 1, Len(clean) - 3) ELSE clean
        cents == IF EndsWithCents(clean)
                 THEN DecimalValue(SubSeq(clean, Len(clean) - 1, Len(clean))) ELSE 0
    IN  IF Len(clean) = 0 THEN ParseError
        ELSE IF DecimalValue(ints) > MAX_PRICE_VALUE
                \/ (DecimalValue(ints) = MAX_PRICE_VALUE /\ cents > 0)
        THEN ParseError
        ELSE [raised |-> FALSE, value |-> Value(DecimalValue(ints), 10 * cents),
              has_hr |-> EndsWithHr(text)]

\* No price is being formatted (the other specifications).
FPIdle ==
    /\ fp_in = [value |-> Value(0, 0), has_hr |-> FALSE]
    /\ fp_text = <<>>

FPInit ==
    /\ fp_in \in [value : NewValues, has_hr : BOOLEAN]
    /\ fp_text = <<>>

\* update_prices formats the new price of a validated request.
FormatPrice ==
    /\ fp_in.value \in NewValues
    /\ fp_text = <<>>
    /\ fp_text' = format_new_price(fp_in.value, fp_in.has_hr)
    /\ UNCHANGED fp_in
    /\ UNCHANGED <<storeVars, rlVars, updVars, rrVars, pvVars, shVars, coVars, ynVars, exVars, fdVars, eqVars, mnVars, hpVars, lgVars, avVars>>

(***************************************************************************)
(* extract_prices (extract_prices.py).  A document is a sequence of pages, *)
(* a page the sequence of its spans in block, line and span order; a span  *)
(* is given by its stripped text.  An item keeps id, text and page_num;    *)
(* the position of the span on its page stands for its bbox.               *)
(***************************************************************************)
MaxPages == 2

MaxPageSpans == 2

\* 'Widget', '$5', '$1,250.00/hr' shortened to '$5/hr', and '$20,000,000',
\* which matches the pattern and exceeds MAX_PRICE_VALUE.
SpanTexts ==
    { <<"W">>,
      <<"$", "5">>,
      <<"$", "2", "0", ",", "0", "0", "0", ",", "0", "0", "0">> }

RECURSIVE SeqsUpTo(_, _)
SeqsUpTo(S, n) ==
    IF n = 0 THEN {<<>>}
    ELSE SeqsUpTo(S, n - 1) \cup [1..n -> S]

Pages == SeqsUpTo(SpanTexts, MaxPageSpans)

Documents == UNION {[1..n -> Pages] : n \in 1..MaxPages}

PriceItem(id, text, page_num, span) ==
    [id |-> id, text |-> text, numeric_value |-> parse_price_value(text).value,
     has_hr_suffix |-> parse_price_value(text).has_hr,
     page_num |-> page_num, span |-> span]

\* No extraction is running (the other specifications).
EXIdle ==
    /\ ex_doc = <<>>
    /\ ex_pc = "idle"
    /\ ex_page = 0
    /\ ex_span = 0
    /\ price_id = 0
    /\ prices = <<>>

\* extract_prices(pdf_path) entered: price_id = 0, prices = [], at the first
\* span of the first page.
EXInit ==
    /\ ex_doc \in Documents
    /\ ex_pc = "scan"
    /\ ex_page = 1
    /\ ex_span = 1
    /\ price_id = 0
    /\ prices = <<>>

\* The span in hand.
SpanText == ex_doc[ex_page][ex_span]

AtSpan ==
    /\ ex_pc = "scan"
    /\ ex_page <= Len(ex_doc)
    /\ ex_span <= Len(ex_doc[ex_page])

\* The text does not fully match PRICE_PATTERN: the next span.
ExtractNoMatch ==
    /\ AtSpan
    /\ ~FullMatch(SpanText)
    /\ ex_span' = ex_span + 1
    /\ UNCHANGED <<ex_doc, ex_pc, ex_page, price_id, prices>>
    /\ UNCHANGED <<storeVars, rlVars, updVars, rrVars, pvVars, shVars, coVars, ynVars, fpVars, fdVars, eqVars, mnVars, hpVars, lgVars, avVars>>

\* Mutant of ExtractUnparseable: the skipped span takes an id.
ExtractUnparseable_TakesId ==
    /\ AtSpan
    /\ FullMatch(SpanText)
    /\ parse_price_value(SpanText).raised
    /\ ex_span' = ex_span + 1
    /\ price_id' = price_id + 1
    /\ UNCHANGED <<ex_doc, ex_pc, ex_page, prices>>
    /\ UNCHANGED <<storeVars, rlVars, updVars, rrVars, pvVars, shVars, coVars, ynVars, fpVars, fdVars, eqVars, mnVars, hpVars, lgVars, avVars>>

\* parse_price_value raises ValueError: a warning and 'continue'.
ExtractUnparseable ==
    /\ AtSpan
    /\ FullMatch(SpanText)
    /\ parse_price_value(SpanText).raised
    /\ ex_span' = ex_span + 1
    /\ UNCHANGED <<ex_doc, ex_pc, ex_page, price_id, prices>>
    /\ UNCHANGED <<storeVars, rlVars, updVars, rrVars, pvVars, shVars, coVars, ynVars, fpVars, fdVars, eqVars, mnVars, hpVars, lgVars, avVars>>

\* The item is appended with id = price_id, and price_id += 1.
ExtractAppend ==
    /\ AtSpan
    /\ FullMatch(SpanText)
    /\ ~parse_price_value(SpanText).raised
    /\ prices' = Append(prices, PriceItem(price_id, SpanText, ex_page - 1, ex_span))
    /\ price_id' = price_id + 1
    /\ ex_span' = ex_span + 1
    /\ UNCHANGED <<ex_doc, ex_pc, ex_page>>
    /\ UNCHANGED <<storeVars, rlVars, updVars, rrVars, pvVars, shVars, coVars, ynVars, fpVars, fdVars, eqVars, mnVars, hpVars, lgVars, avVars>>

\* The spans of the page are exhausted: the next page of enumerate(doc).
ExtractNextPage ==
    /\ ex_pc = "scan"
    /\ ex_span > Len(ex_doc[ex_page])
    /\ ex_page < Len(ex_doc)
    /\ ex_page' = ex_page + 1
    /\ ex_span' = 1
    /\ UNCHANGED <<ex_doc, ex_pc, price_id, prices>>
    /\ UNCHANGED <<storeVars, rlVars, updVars, rrVars, pvVars, shVars, coVars, ynVars, fpVars, fdVars, eqVars, mnVars, hpVars, lgVars, avVars>>

\* The last page is exhausted: return prices.
ExtractReturn ==
    /\ ex_pc = "scan"
    /\ ex_span > Len(ex_doc[ex_page])
    /\ ex_page = Len(ex_doc)
    /\ ex_pc' = "done"
    /\ UNCHANGED <<ex_doc, ex_page, ex_span, price_id, prices>>
    /\ UNCHANGED <<storeVars, rlVars, updVars, rrVars, pvVars, shVars, coVars, ynVars, fpVars, fdVars, eqVars, mnVars, hpVars, lgVars, avVars>>

EXNext ==
    \/ ExtractNoMatch
    \/ ExtractUnparseable
    \/ ExtractAppend
    \/ ExtractNextPage
    \/ ExtractReturn

(***************************************************************************)
(* find_description_for_price (extract_prices.py).  A span is its text and *)
(* its bbox <<x0, y0, x1, y1>>.                                            *)
(***************************************************************************)
tolerance == 5

MaxAllSpans == 2

UnknownItem == <<"Unknown item">>

\* The bbox of the price whose description is looked up.
PriceBoxes == {<<10, 20, 14, 24>>}

\* Horizontal extents: left of the price (gaps 6 and 2), ending at its left
\* edge, overlapping it, beginning at its right edge.
XRanges == {<<0, 4>>, <<2, 8>>, <<8, 10>>, <<9, 12>>, <<14, 18>>}

\* Vertical extents: the line of the price, centers 2, 4, 5 and 6 away,
\* ending above the price (gaps 1 and 6) or at its top, and below it.
YRanges == {<<20, 24>>, <<16, 20>>, <<15, 19>>, <<13, 19>>, <<10, 14>>, <<26, 30>>}

\* 'W', 'D', a blank text, '$5', '$5 fee' and '$0'.
DescTexts ==
    { <<"W">>, <<"D">>, <<" ">>, <<"$", "5">>, <<"$", "5", " ", "f", "e", "e">>,
      <<"$", "0">> }

Spans ==
    {[text |-> t, bbox |-> <<x[1], y[1], x[2], y[2]>>] :
        t \in DescTexts, x \in XRanges, y \in YRanges}

\* str.strip() for blanks.
RECURSIVE strip(_)
strip(s) ==
    IF Len(s) = 0 THEN s
    ELSE IF s[1] = " " THEN strip(Tail(s))
    ELSE IF s[Len(s)] = " " THEN strip(SubSeq(s, 1, Len(s) - 1))
    ELSE s

abs(n) == IF n < 0 THEN -n ELSE n

\* if not text or PRICE_PATTERN.match(text): continue
Skipped(span) == strip(span.text) = <<>> \/ Match(strip(span.text))

\* abs(span_center_y - price_center_y) <= tolerance and sx1 < px0, with
\* the centers doubled.
OnSameLineLeft(span, price_bbox) ==
    /\ abs((span.bbox[2] + span.bbox[4]) - (price_bbox[2] + price_bbox[4])) <= 2 * tolerance
    /\ span.bbox[3] < price_bbox[1]

\* sy1 < py0 and sx0 < px1 and sx1 > px0
AboveOverlapping(span, price_bbox) ==
    /\ span.bbox[4] < price_bbox[2]
    /\ span.bbox[1] < price_bbox[3]
    /\ span.bbox[3] > price_bbox[1]

\* The (distance, text) pairs appended to same_line_candidates.
same_line_candidates(price_bbox, all_spans) ==
    LET C(span) == ~Skipped(span) /\ OnSameLineLeft(span, price_bbox)
        kept == SelectSeq(all_spans, C)
    IN  [i \in 1..Len(kept) |-> <<price_bbox[1] - kept[i].bbox[3], strip(kept[i].text)>>]

\* The (distance, text) pairs appended to above_candidates by the elif.
above_candidates(price_bbox, all_spans) ==
    LET C(span) == /\ ~Skipped(span)
                   /\ ~OnSameLineLeft(span, price_bbox)
                   /\ AboveOverlapping(span, price_bbox)
        kept == SelectSeq(all_spans, C)
    IN  [i \in 1..Len(kept) |-> <<price_bbox[2] - kept[i].bbox[4], strip(kept[i].text)>>]

\* candidates.sort(key=lambda x: x[0]); candidates[0]: the stable sort
\* puts first the earliest of the candidates with the least distance.
FirstSorted(candidates) ==
    candidates[CHOOSE i \in 1..Len(candidates) :
                  \A j \in 1..Len(candidates) :
                     \/ candidates[j][1] > candidates[i][1]
                     \/ (candidates[j][1] = candidates[i][1] /\ j >= i)]

find_description_for_price(price_bbox, all_spans) ==
    IF same_line_candidates(price_bbox, all_spans) # <<>>
    THEN FirstSorted(same_line_candidates(price_bbox, all_spans))[2]
    ELSE IF above_candidates(price_bbox, all_spans) # <<>>
    THEN FirstSorted(above_candidates(price_bbox, all_spans))[2]
    ELSE UnknownItem

\* No description is looked up (the other specifications).
FDIdle ==
    /\ fd_price = <<>>
    /\ fd_spans = <<>>
    /\ fd_out = <<>>

FDInit ==
    /\ fd_price \in PriceBoxes
    /\ fd_spans \in SeqsUpTo(Spans, MaxAllSpans)
    /\ fd_out = <<>>

\* extract_prices looks up the description of a price.
FindDescription ==
    /\ fd_price \in PriceBoxes
    /\ fd_out = <<>>
    /\ fd_out' = find_description_for_price(fd_price, fd_spans)
    /\ UNCHANGED <<fd_price, fd_spans>>
    /\ UNCHANGED <<storeVars, rlVars, updVars, rrVars, pvVars, shVars, coVars, ynVars, fpVars, exVars, eqVars, mnVars, hpVars, lgVars, avVars>>

(***************************************************************************)
(* Equipment requests (equipment/api.py): create_request and               *)
(* update_request on the rows of the requests table.                       *)
(***************************************************************************)
MaxRows == 2

MaxPatches == 2

\* RequestStatus
SUBMITTED == "Submitted"

APPROVED == "Approved"

DENIED == "Denied"

FULFILLED == "Fulfilled"

RETURNED == "Returned"

RequestStatus == {SUBMITTED, APPROVED, DENIED, FULFILLED, RETURNED}

NoRow == "no row"

RequestIds == 1..MaxRows

\* The dictionary valid_transitions of update_request.
valid_transitions ==
    [current \in {SUBMITTED, APPROVED, FULFILLED} |->
        CASE current = SUBMITTED -> {APPROVED, DENIED}
          [] current = APPROVED -> {FULFILLED, DENIED}
          [] current = FULFILLED -> {RETURNED}]

\* valid_transitions.get(current, [])
TransitionsGet(current) ==
    IF current \in DOMAIN valid_transitions THEN valid_transitions[current] ELSE {}

\* The condition under which update_request raises the 400.
TransitionRefused(current, new) ==
    current \in DOMAIN valid_transitions /\ new \notin TransitionsGet(current)

Patched(request_id, current, new, code) ==
    [request_id |-> request_id, current |-> current, new |-> new, code |-> code]

\* An empty requests table.
EQInit ==
    /\ eq_rows = [id \in RequestIds |-> NoRow]
    /\ eq_log = <<>>

\* POST /api/requests: a new row with status Submitted.
CreateRequest ==
    /\ \E id \in RequestIds :
          /\ eq_rows[id] = NoRow
          /\ \A other \in RequestIds : other < id => eq_rows[other] # NoRow
          /\ eq_rows' = [eq_rows EXCEPT ![id] = SUBMITTED]
    /\ UNCHANGED eq_log
    /\ UNCHANGED <<storeVars, rlVars, updVars, rrVars, pvVars, shVars, coVars, ynVars, fpVars, exVars, fdVars, mnVars, hpVars, lgVars, avVars>>

\* PATCH /api/requests/{request_id} for an id without a row: 404.
UpdateRequestNotFound ==
    /\ Len(eq_log) < MaxPatches
    /\ \E request_id \in RequestIds, new \in RequestStatus :
          /\ eq_rows[request_id] = NoRow
          /\ eq_log' = Append(eq_log, Patched(request_id, NoRow, new, 404))
    /\ UNCHANGED eq_rows
    /\ UNCHANGED <<storeVars, rlVars, updVars, rrVars, pvVars, shVars, coVars, ynVars, fpVars, exVars, fdVars, mnVars, hpVars, lgVars, avVars>>

\* PATCH /api/requests/{request_id}: the transition test raises the 400.
UpdateRequestRefused ==
    /\ Len(eq_log) < MaxPatches
    /\ \E request_id \in RequestIds, new \in RequestStatus :
          /\ eq_rows[request_id] # NoRow
          /\ TransitionRefused(eq_rows[request_id], new)
          /\ eq_log' = Append(eq_log, Patched(request_id, eq_rows[request_id], new, 400))
    /\ UNCHANGED eq_rows
    /\ UNCHANGED <<storeVars, rlVars, updVars, rrVars, pvVars, shVars, coVars, ynVars, fpVars, exVars, fdVars, mnVars, hpVars, lgVars, avVars>>

\* PATCH /api/requests/{request_id}: db_request.status = new, commit, 200.
UpdateRequestApplied ==
    /\ Len(eq_log) < MaxPatches
    /\ \E request_id \in RequestIds, new \in RequestStatus :
          /\ eq_rows[request_id] # NoRow
          /\ ~TransitionRefused(eq_rows[request_id], new)
          /\ eq_rows' = [eq_rows EXCEPT ![request_id] = new]
          /\ eq_log' = Append(eq_log, Patched(request_id, eq_rows[request_id], new, 200))
    /\ UNCHANGED <<storeVars, rlVars, updVars, rrVars, pvVars, shVars, coVars, ynVars, fpVars, exVars, fdVars, mnVars, hpVars, lgVars, avVars>>

EQNext ==
    \/ CreateRequest
    \/ UpdateRequestNotFound
    \/ UpdateRequestRefused
    \/ UpdateRequestApplied

(***************************************************************************)
(* main (backend.py): arguments, logging, the optional pre-load, binding   *)
(* the listener, the shutdown token, the READY line and serve_forever.     *)
(***************************************************************************)
MaxServed == 2

DEFAULT_PORT == 8080

\* args.port
Ports == {DEFAULT_PORT, 80}

\* args.pdf: absent, rejected by validate_pdf_path, not existing, a document
\* that loads, a document on which extract_prices raises.
PdfArgs == {"absent", "rejected", "missing", "loads", "raises"}

\* How HTTPServer(('127.0.0.1', args.port), APIHandler) fails: an OSError
\* with one of the errno values main tells apart or with another one, or an
\* exception that is no OSError (NoErrno).
EADDRINUSE == 98

EACCES == 13

EADDRNOTAVAIL == 99

EINVAL == 22

EPERM == 1

NoErrno == 0

BindFailures == {EADDRINUSE, EACCES, EADDRNOTAVAIL, EINVAL, EPERM, NoErrno}

\* Request lines that log_message receives from send_response.
RequestLines == {"GET /api/health HTTP/1.1", "POST /api/shutdown HTTP/1.1"}

\* A call of the logger: the message with the values interpolated into it.
LogRecord(level, msg, text) == [level |-> level, msg |-> msg, text |-> text]

\* A line of standard output or standard error.  setup_logging attaches a
\* StreamHandler on sys.stdout, so every record is also a line of stdout,
\* prefixed with the time and the level.
LogLine(rec) == [kind |-> "log", port |-> 0, text |-> rec.text, msg |-> rec.msg]

ReadyLine(port, token) == [kind |-> "READY", port |-> port, text |-> token, msg |-> ""]

ErrorLine(msg) == [kind |-> "Error", port |-> 0, text |-> "", msg |-> msg]

\* The message main writes for an errno of the failed bind.
BindMessage(e) ==
    CASE e = EADDRINUSE -> "Port is already in use"
      [] e = EACCES -> "Permission denied to bind to port"
      [] e = EADDRNOTAVAIL -> "Address not available for port"
      [] e = EINVAL -> "Invalid port number"
      [] e = NoErrno -> "Unexpected error starting server"
      [] OTHER -> "Failed to start server on port"

\* main is not running.
MNIdle ==
    /\ mn_pc = "idle"
    /\ mn_args = [port |-> DEFAULT_PORT, pdf |-> "absent"]
    /\ mn_server = "none"
    /\ mn_stdout = <<>>
    /\ mn_stderr = <<>>
    /\ mn_log = <<>>
    /\ mn_served = 0
    /\ mn_exit = None

\* main was called with some arguments.
MNInit ==
    /\ mn_pc = "setup_logging"
    /\ mn_args \in [port : Ports, pdf : PdfArgs]
    /\ mn_server = "none"
    /\ mn_stdout = <<>>
    /\ mn_stderr = <<>>
    /\ mn_log = <<>>
    /\ mn_served = 0
    /\ mn_exit = None

\* logger.<level>(...): the record reaches the logger and, through the
\* stream handler, standard output.
LoggerCalls(recs) ==
    /\ mn_log' = mn_log \o recs
    /\ mn_stdout' = mn_stdout \o [i \in 1..Len(recs) |-> LogLine(recs[i])]

\* setup_logging(args.debug) and the two lines about the arguments.
MainSetupLogging ==
    /\ mn_pc = "setup_logging"
    /\ LoggerCalls(<<LogRecord("info", "Debug mode", "False"),
                LogRecord("info", "Port", "port")>>)
    /\ mn_pc' = "preload"
    /\ UNCHANGED <<mn_args, mn_server, mn_stderr, mn_served, mn_exit>>
    /\ UNCHANGED <<storeVars, rlVars, updVars, rrVars, pvVars, shVars, coVars, ynVars, fpVars, exVars, fdVars, eqVars, hpVars, lgVars, avVars>>

\* if args.pdf: false, or the path is rejected, or the file does not exist.
MainPreloadSkipped ==
    /\ mn_pc = "preload"
    /\ mn_args.pdf \in {"absent", "rejected", "missing"}
    /\ LoggerCalls(CASE mn_args.pdf = "absent" -> <<>>
                [] mn_args.pdf = "rejected" ->
                      <<LogRecord("warning", "Invalid PDF path rejected", "args.pdf")>>
                [] mn_args.pdf = "missing" ->
                      <<LogRecord("warning", "PDF not found", "validated_path")>>)
    /\ mn_pc' = "bind"
    /\ UNCHANGED <<mn_args, mn_server, mn_stderr, mn_served, mn_exit>>
    /\ UNCHANGED <<storeVars, rlVars, updVars, rrVars, pvVars, shVars, coVars, ynVars, fpVars, exVars, fdVars, eqVars, hpVars, lgVars, avVars>>

\* load_pdf(validated_path), before any thread exists: the document is
\* extracted and published.
MainPreloadLoaded ==
    /\ mn_pc = "preload"
    /\ mn_args.pdf = "loads"
    /\ LoggerCalls(<<LogRecord("info", "Pre-loading PDF", "validated_path")>>)
    /\ \E p \in Paths :
          /\ current_pdf_path' = p
          /\ prices_cache' = extract_prices(p)
          /\ lastPub' = p
    /\ mn_pc' = "bind"
    /\ UNCHANGED <<mn_args, mn_server, mn_stderr, mn_served, mn_exit>>
    /\ UNCHANGED <<state_lock, load_lock, pc, arg, loc, pdf_path_l, ret>>
    /\ UNCHANGED <<rlVars, updVars, rrVars, pvVars, shVars, coVars, ynVars, fpVars, exVars, fdVars, eqVars, hpVars, lgVars, avVars>>

\* load_pdf raises something else than ValueError: nothing catches it, the
\* interpreter writes the traceback and the process ends.
MainPreloadRaises ==
    /\ mn_pc = "preload"
    /\ mn_args.pdf = "raises"
    /\ LoggerCalls(<<LogRecord("info", "Pre-loading PDF", "validated_path")>>)
    /\ mn_stderr' = Append(mn_stderr, ErrorLine("Traceback"))
    /\ mn_exit' = 1
    /\ mn_pc' = "exited"
    /\ UNCHANGED <<mn_args, mn_server, mn_served>>
    /\ UNCHANGED <<storeVars, rlVars, updVars, rrVars, pvVars, shVars, coVars, ynVars, fpVars, exVars, fdVars, eqVars, hpVars, lgVars, avVars>>

\* server = HTTPServer(...): the constructor binds and listens.
MainBound ==
    /\ mn_pc = "bind"
    /\ mn_server' = "bound"
    /\ mn_pc' = "token"
    /\ UNCHANGED <<mn_args, mn_stdout, mn_stderr, mn_log, mn_served, mn_exit>>
    /\ UNCHANGED <<storeVars, rlVars, updVars, rrVars, pvVars, shVars, coVars, ynVars, fpVars, exVars, fdVars, eqVars, hpVars, lgVars, avVars>>

\* Mutant of MainBindFailed: the READY line is written before the exit.
MainBindFailed_WritesReady ==
    /\ mn_pc = "bind"
    /\ \E e \in BindFailures :
          /\ mn_stderr' = Append(mn_stderr, ErrorLine(BindMessage(e)))
          /\ mn_log' = Append(mn_log, LogRecord("error", BindMessage(e), "port"))
          /\ mn_stdout' = mn_stdout
                             \o <<LogLine(LogRecord("error", BindMessage(e), "port")),
                                  ReadyLine(mn_args.port, None)>>
    /\ mn_exit' = 1
    /\ mn_pc' = "exited"
    /\ UNCHANGED <<mn_args, mn_server, mn_served>>
    /\ UNCHANGED <<storeVars, rlVars, updVars, rrVars, pvVars, shVars, coVars, ynVars, fpVars, exVars, fdVars, eqVars, hpVars, lgVars, avVars>>

\* The constructor raises: a line on stderr, logger.error, sys.exit(1).
MainBindFailed ==
    /\ mn_pc = "bind"
    /\ \E e \in BindFailures :
          /\ mn_stderr' = Append(mn_stderr, ErrorLine(BindMessage(e)))
          /\ LoggerCalls(<<LogRecord("error", BindMessage(e), "port")>>)
    /\ mn_exit' = 1
    /\ mn_pc' = "exited"
    /\ UNCHANGED <<mn_args, mn_server, mn_served>>
    /\ UNCHANGED <<storeVars, rlVars, updVars, rrVars, pvVars, shVars, coVars, ynVars, fpVars, exVars, fdVars, eqVars, hpVars, lgVars, avVars>>

\* shutdown_token = secrets.token_urlsafe(32)
MainToken ==
    /\ mn_pc = "token"
    /\ shutdown_token' = Secret
    /\ mn_pc' = "store"
    /\ UNCHANGED <<mn_args, mn_server, mn_stdout, mn_stderr, mn_log, mn_served, mn_exit>>
    /\ UNCHANGED <<server_instance, server_state, sh_pc, sh_reqs, sh_threads, sh_log>>
    /\ UNCHANGED <<storeVars, rlVars, updVars, rrVars, pvVars, coVars, ynVars, fpVars, exVars, fdVars, eqVars, hpVars, lgVars, avVars>>

\* server_instance = server; logger.info("Backend server running at ...")
MainStore ==
    /\ mn_pc = "store"
    /\ server_instance' = "server"
    /\ LoggerCalls(<<LogRecord("info", "Backend server running at", "port")>>)
    /\ mn_pc' = "ready"
    /\ UNCHANGED <<mn_args, mn_server, mn_stderr, mn_served, mn_exit>>
    /\ UNCHANGED <<shutdown_token, server_state, sh_pc, sh_reqs, sh_threads, sh_log>>
    /\ UNCHANGED <<storeVars, rlVars, updVars, rrVars, pvVars, coVars, ynVars, fpVars, exVars, fdVars, eqVars, hpVars, lgVars, avVars>>

\* print(f"READY:{args.port}:{shutdown_token}", flush=True)
MainReady ==
    /\ mn_pc = "ready"
    /\ mn_stdout' = Append(mn_stdout, ReadyLine(mn_args.port, shutdown_token))
    /\ mn_pc' = "serve"
    /\ UNCHANGED <<mn_args, mn_server, mn_stderr, mn_log, mn_served, mn_exit>>
    /\ UNCHANGED <<storeVars, rlVars, updVars, rrVars, pvVars, shVars, coVars, ynVars, fpVars, exVars, fdVars, eqVars, hpVars, lgVars, avVars>>

\* server.serve_forever() starts polling the listener.
MainServeForever ==
    /\ mn_pc = "serve"
    /\ server_state' = "serving"
    /\ mn_pc' = "serving"
    /\ UNCHANGED <<mn_args, mn_server, mn_stdout, mn_stderr, mn_log, mn_served, mn_exit>>
    /\ UNCHANGED <<shutdown_token, server_instance, sh_pc, sh_reqs, sh_threads, sh_log>>
    /\ UNCHANGED <<storeVars, rlVars, updVars, rrVars, pvVars, coVars, ynVars, fpVars, exVars, fdVars, eqVars, hpVars, lgVars, avVars>>

\* serve_forever hands a connection to the handler; send_response passes
\* the request line to log_message.
MainServeRequest ==
    /\ mn_pc = "serving"
    /\ mn_served < MaxServed
    /\ mn_served' = mn_served + 1
    /\ \E line \in RequestLines :
          LoggerCalls(<<LogRecord("info", "log_message", line)>>)
    /\ UNCHANGED <<mn_pc, mn_args, mn_server, mn_stderr, mn_exit>>
    /\ UNCHANGED <<storeVars, rlVars, updVars, rrVars, pvVars, shVars, coVars, ynVars, fpVars, exVars, fdVars, eqVars, hpVars, lgVars, avVars>>

\* KeyboardInterrupt in serve_forever: logger.info("Shutting down..."),
\* server.shutdown(), main returns.
MainInterrupted ==
    /\ mn_pc = "serving"
    /\ LoggerCalls(<<LogRecord("info", "Shutting down...", "")>>)
    /\ server_state' = "stopped"
    /\ mn_exit' = 0
    /\ mn_pc' = "exited"
    /\ UNCHANGED <<mn_args, mn_server, mn_stderr, mn_served>>
    /\ UNCHANGED <<shutdown_token, server_instance, sh_pc, sh_reqs, sh_threads, sh_log>>
    /\ UNCHANGED <<storeVars, rlVars, updVars, rrVars, pvVars, coVars, ynVars, fpVars, exVars, fdVars, eqVars, hpVars, lgVars, avVars>>

\* Another exception leaves serve_forever: a line on stderr, logger.error,
\* sys.exit(1).
MainServeError ==
    /\ mn_pc = "serving"
    /\ mn_stderr' = Append(mn_stderr, ErrorLine("Server error during operation"))
    /\ LoggerCalls(<<LogRecord("error", "Server error during operation", "e")>>)
    /\ server_state' = "stopped"
    /\ mn_exit' = 1
    /\ mn_pc' = "exited"
    /\ UNCHANGED <<mn_args, mn_server, mn_served>>
    /\ UNCHANGED <<shutdown_token, server_instance, sh_pc, sh_reqs, sh_threads, sh_log>>
    /\ UNCHANGED <<storeVars, rlVars, updVars, rrVars, pvVars, coVars, ynVars, fpVars, exVars, fdVars, eqVars, hpVars, lgVars, avVars>>

\* serve_forever returns after server_instance.shutdown(): main returns.
MainReturns ==
    /\ mn_pc = "serving"
    /\ mn_served > 0
    /\ server_state' = "stopped"
    /\ mn_exit' = 0
    /\ mn_pc' = "exited"
    /\ UNCHANGED <<mn_args, mn_server, mn_stdout, mn_stderr, mn_log, mn_served>>
    /\ UNCHANGED <<shutdown_token, server_instance, sh_pc, sh_reqs, sh_threads, sh_log>>
    /\ UNCHANGED <<storeVars, rlVars, updVars, rrVars, pvVars, coVars, ynVars, fpVars, exVars, fdVars, eqVars, hpVars, lgVars, avVars>>

MNNext ==
    \/ MainSetupLogging
    \/ MainPreloadSkipped
    \/ MainPreloadLoaded
    \/ MainPreloadRaises
    \/ MainBound
    \/ MainBindFailed
    \/ MainToken
    \/ MainStore
    \/ MainReady
    \/ MainServeForever
    \/ MainServeRequest
    \/ MainInterrupted
    \/ MainServeError
    \/ MainReturns


(***************************************************************************)
(* APIHandler.do_GET and do_POST (backend.py): the rate limit check, the   *)
(* body of a POST and the routes /api/prices and /api/load, one request    *)
(* at a time.                                                              *)
(***************************************************************************)
MaxHandled == 3

MAX_REQUEST_BODY_SIZE == 10485760

REQUEST_BODY_READ_TIMEOUT == 10

\* connection.gettimeout() of a blocking socket is None.
NoTimeout == 0

KeepAliveTimeout == 30

\* What the connection's timeout is when the handler is entered.
OriginalTimeouts == {NoTimeout, KeepAliveTimeout}

\* The Content-Length header: absent or 0, a short body, the largest body
\* accepted, one byte more.
ContentLengths == {0, 2, MAX_REQUEST_BODY_SIZE, MAX_REQUEST_BODY_SIZE + 1}

Methods == {"GET", "POST"}

\* No response was sent.
NothingSent == 0

\* What a handler did, in order: the calls that matter here.
Did(op, what) == [op |-> op, what |-> what]

\* rate_limiter.is_allowed(endpoint) at time now, on the timestamps ts.
is_allowed(ts, now) == Len(Unexpired(ts, now)) < MaxRequests

\* The timestamps of the endpoint after the call.
AfterIsAllowed(ts, now) ==
    IF is_allowed(ts, now) THEN Append(Unexpired(ts, now), now) ELSE Unexpired(ts, now)

\* The document state.
DocumentState == <<current_pdf_path, prices_cache>>

\* No request is in hand and none was handled.
HPIdle ==
    /\ hp_pc = "idle"
    /\ hp_req = [method |-> "GET", path |-> "/api/prices", length |-> 0]
    /\ hp_timeout = NoTimeout
    /\ hp_orig = NoTimeout
    /\ hp_trace = <<>>
    /\ hp_resp = NothingSent
    /\ hp_before = <<None, NonePrices>>
    /\ hp_count = 0

\* A request arrives: do_GET or do_POST is entered.
HandleRequest ==
    /\ hp_pc = "idle"
    /\ hp_count < MaxHandled
    /\ \E md \in Methods, p \in Endpoints, n \in ContentLengths, tmo \in OriginalTimeouts :
          /\ hp_req' = [method |-> md, path |-> p, length |-> IF md = "GET" THEN 0 ELSE n]
          /\ hp_timeout' = tmo
          /\ hp_orig' = tmo
    /\ hp_trace' = <<>>
    /\ hp_resp' = NothingSent
    /\ hp_before' = DocumentState
    /\ hp_pc' = "rate"
    /\ UNCHANGED hp_count
    /\ UNCHANGED <<storeVars, rlVars, updVars, rrVars, pvVars, shVars, coVars, ynVars, fpVars, exVars, fdVars, eqVars, mnVars, lgVars, avVars>>

\* The request is finished with status code.
AnsweredWith(code, did) ==
    /\ hp_resp' = code
    /\ hp_trace' = hp_trace \o did
    /\ hp_pc' = "idle"
    /\ hp_count' = hp_count + 1

\* _check_rate_limit returns False: is_allowed recorded the request.
RateLimitPassed ==
    /\ hp_pc = "rate"
    /\ is_allowed(requests[hp_req.path], clock)
    /\ requests' = [requests EXCEPT ![hp_req.path] = AfterIsAllowed(@, clock)]
    /\ hp_trace' = Append(hp_trace, Did("is_allowed", hp_req.path))
    /\ hp_pc' = IF hp_req.method = "GET" THEN "route" ELSE "length"
    /\ UNCHANGED <<hp_req, hp_timeout, hp_orig, hp_resp, hp_before, hp_count>>
    /\ UNCHANGED <<clock, rl_pc, rl_now, rl_key, calls>>
    /\ UNCHANGED <<storeVars, updVars, rrVars, pvVars, shVars, coVars, ynVars, fpVars, exVars, fdVars, eqVars, mnVars, lgVars, avVars>>

\* Mutant of RateLimitExceeded: the 429 is sent but the handler goes on.
RateLimitExceeded_GoesOn ==
    /\ hp_pc = "rate"
    /\ ~is_allowed(requests[hp_req.path], clock)
    /\ requests' = [requests EXCEPT ![hp_req.path] = AfterIsAllowed(@, clock)]
    /\ hp_trace' = Append(hp_trace, Did("is_allowed", hp_req.path))
    /\ hp_resp' = 429
    /\ hp_pc' = IF hp_req.method = "GET" THEN "route" ELSE "length"
    /\ UNCHANGED <<hp_req, hp_timeout, hp_orig, hp_before, hp_count>>
    /\ UNCHANGED <<clock, rl_pc, rl_now, rl_key, calls>>
    /\ UNCHANGED <<storeVars, updVars, rrVars, pvVars, shVars, coVars, ynVars, fpVars, exVars, fdVars, eqVars, mnVars, lgVars, avVars>>

\* _check_rate_limit returns True: logger.warning, send_json(..., 429), and
\* do_GET or do_POST returns.
RateLimitExceeded ==
    /\ hp_pc = "rate"
    /\ ~is_allowed(requests[hp_req.path], clock)
    /\ requests' = [requests EXCEPT ![hp_req.path] = AfterIsAllowed(@, clock)]
    /\ AnsweredWith(429, <<Did("is_allowed", hp_req.path)>>)
    /\ UNCHANGED <<hp_req, hp_timeout, hp_orig, hp_before>>
    /\ UNCHANGED <<clock, rl_pc, rl_now, rl_key, calls>>
    /\ UNCHANGED <<storeVars, updVars, rrVars, pvVars, shVars, coVars, ynVars, fpVars, exVars, fdVars, eqVars, mnVars, lgVars, avVars>>

\* if content_length > MAX_REQUEST_BODY_SIZE: send_json(..., 413); return
PostTooLarge ==
    /\ hp_pc = "length"
    /\ hp_req.length > MAX_REQUEST_BODY_SIZE
    /\ AnsweredWith(413, <<>>)
    /\ UNCHANGED <<hp_req, hp_timeout, hp_orig, hp_before>>
    /\ UNCHANGED <<storeVars, rlVars, updVars, rrVars, pvVars, shVars, coVars, ynVars, fpVars, exVars, fdVars, eqVars, mnVars, lgVars, avVars>>

\* original_timeout = self.connection.gettimeout();
\* self.connection.settimeout(REQUEST_BODY_READ_TIMEOUT)
PostSetTimeout ==
    /\ hp_pc = "length"
    /\ hp_req.length <= MAX_REQUEST_BODY_SIZE
    /\ hp_orig' = hp_timeout
    /\ hp_timeout' = REQUEST_BODY_READ_TIMEOUT
    /\ hp_pc' = "read"
    /\ UNCHANGED <<hp_req, hp_trace, hp_resp, hp_before, hp_count>>
    /\ UNCHANGED <<storeVars, rlVars, updVars, rrVars, pvVars, shVars, coVars, ynVars, fpVars, exVars, fdVars, eqVars, mnVars, lgVars, avVars>>

\* raw_body = self.rfile.read(content_length) returns; finally: the timeout
\* is set back.
PostReadBody ==
    /\ hp_pc = "read"
    /\ hp_timeout' = hp_orig
    /\ hp_trace' = Append(hp_trace, Did("read", "body"))
    /\ hp_pc' = "decode"
    /\ UNCHANGED <<hp_req, hp_orig, hp_resp, hp_before, hp_count>>
    /\ UNCHANGED <<storeVars, rlVars, updVars, rrVars, pvVars, shVars, coVars, ynVars, fpVars, exVars, fdVars, eqVars, mnVars, lgVars, avVars>>

\* Mutant of PostReadTimeout: the timeout is set back only when the read
\* returns.
PostReadTimeout_KeepsTimeout ==
    /\ hp_pc = "read"
    /\ hp_req.length # 0
    /\ AnsweredWith(408, <<Did("read", "socket.timeout")>>)
    /\ UNCHANGED <<hp_req, hp_timeout, hp_orig, hp_before>>
    /\ UNCHANGED <<storeVars, rlVars, updVars, rrVars, pvVars, shVars, coVars, ynVars, fpVars, exVars, fdVars, eqVars, mnVars, lgVars, avVars>>

\* The read raises socket.timeout (a read of no byte returns at once):
\* finally sets the timeout back, logger.warning, send_json(..., 408), return.
PostReadTimeout ==
    /\ hp_pc = "read"
    /\ hp_req.length # 0
    /\ hp_timeout' = hp_orig
    /\ AnsweredWith(408, <<Did("read", "socket.timeout")>>)
    /\ UNCHANGED <<hp_req, hp_orig, hp_before>>
    /\ UNCHANGED <<storeVars, rlVars, updVars, rrVars, pvVars, shVars, coVars, ynVars, fpVars, exVars, fdVars, eqVars, mnVars, lgVars, avVars>>

\* The read raises ConnectionResetError or BrokenPipeError: finally sets the
\* timeout back, logger.warning, return without a response.
PostReadReset ==
    /\ hp_pc = "read"
    /\ hp_req.length # 0
    /\ hp_timeout' = hp_orig
    /\ AnsweredWith(NothingSent, <<Did("read", "ConnectionResetError")>>)
    /\ UNCHANGED <<hp_req, hp_orig, hp_before>>
    /\ UNCHANGED <<storeVars, rlVars, updVars, rrVars, pvVars, shVars, coVars, ynVars, fpVars, exVars, fdVars, eqVars, mnVars, lgVars, avVars>>

\* body = raw_body.decode('utf-8') succeeds.
PostDecoded ==
    /\ hp_pc = "decode"
    /\ hp_trace' = Append(hp_trace, Did("decode", "body"))
    /\ hp_pc' = "route"
    /\ UNCHANGED <<hp_req, hp_timeout, hp_orig, hp_resp, hp_before, hp_count>>
    /\ UNCHANGED <<storeVars, rlVars, updVars, rrVars, pvVars, shVars, coVars, ynVars, fpVars, exVars, fdVars, eqVars, mnVars, lgVars, avVars>>

\* UnicodeDecodeError: logger.warning, send_json(..., 400), return.
PostDecodeError ==
    /\ hp_pc = "decode"
    /\ hp_req.length # 0
    /\ AnsweredWith(400, <<Did("decode", "UnicodeDecodeError")>>)
    /\ UNCHANGED <<hp_req, hp_timeout, hp_orig, hp_before>>
    /\ UNCHANGED <<storeVars, rlVars, updVars, rrVars, pvVars, shVars, coVars, ynVars, fpVars, exVars, fdVars, eqVars, mnVars, lgVars, avVars>>

\* GET /api/prices: get_prices_with_path() under state_lock; 400 when no
\* document is loaded.
RouteGetPrices ==
    /\ hp_pc = "route"
    /\ hp_req.method = "GET"
    /\ hp_req.path = "/api/prices"
    /\ state_lock = 0
    /\ AnsweredWith(IF prices_cache = NonePrices \/ current_pdf_path = None THEN 400 ELSE 200,
                <<Did("route", "/api/prices"), Did("lock", "state_lock")>>)
    /\ UNCHANGED <<hp_req, hp_timeout, hp_orig, hp_before>>
    /\ UNCHANGED <<storeVars, rlVars, updVars, rrVars, pvVars, shVars, coVars, ynVars, fpVars, exVars, fdVars, eqVars, mnVars, lgVars, avVars>>

\* POST /api/load answered 400 before load_pdf: the body is no JSON, or
\* pdf_path is no non-empty string, or validate_pdf_path raises ValueError.
RouteLoadRejected ==
    /\ hp_pc = "route"
    /\ hp_req.method = "POST"
    /\ hp_req.path = "/api/load"
    /\ \E did \in {<<>>, <<Did("validate_pdf_path", "ValueError")>>} :
          AnsweredWith(400, <<Did("route", "/api/load")>> \o did)
    /\ UNCHANGED <<hp_req, hp_timeout, hp_orig, hp_before>>
    /\ UNCHANGED <<storeVars, rlVars, updVars, rrVars, pvVars, shVars, coVars, ynVars, fpVars, exVars, fdVars, eqVars, mnVars, lgVars, avVars>>

\* POST /api/load with an accepted path: load_pdf extracts under load_lock
\* and publishes under state_lock; 200.
RouteLoadLoaded ==
    /\ hp_pc = "route"
    /\ hp_req.method = "POST"
    /\ hp_req.path = "/api/load"
    /\ hp_req.length # 0
    /\ state_lock = 0
    /\ load_lock = 0
    /\ \E p \in Paths :
          /\ current_pdf_path' = p
          /\ prices_cache' = extract_prices(p)
          /\ lastPub' = p
    /\ AnsweredWith(200, <<Did("route", "/api/load"), Did("validate_pdf_path", "ok"),
                       Did("lock", "load_lock"), Did("lock", "state_lock")>>)
    /\ UNCHANGED <<hp_req, hp_timeout, hp_orig, hp_before>>
    /\ UNCHANGED <<state_lock, load_lock, pc, arg, loc, pdf_path_l, ret>>
    /\ UNCHANGED <<rlVars, updVars, rrVars, pvVars, shVars, coVars, ynVars, fpVars, exVars, fdVars, eqVars, mnVars, lgVars, avVars>>

\* POST /api/load with an accepted path on which extract_prices raises: the
\* except clauses answer 404, 403, 400 or 500.
RouteLoadFailed ==
    /\ hp_pc = "route"
    /\ hp_req.method = "POST"
    /\ hp_req.path = "/api/load"
    /\ hp_req.length # 0
    /\ load_lock = 0
    /\ \E code \in {404, 403, 400, 500} :
          AnsweredWith(code, <<Did("route", "/api/load"), Did("validate_pdf_path", "ok"),
                           Did("lock", "load_lock")>>)
    /\ UNCHANGED <<hp_req, hp_timeout, hp_orig, hp_before>>
    /\ UNCHANGED <<storeVars, rlVars, updVars, rrVars, pvVars, shVars, coVars, ynVars, fpVars, exVars, fdVars, eqVars, mnVars, lgVars, avVars>>

\* No route of the method has this path: send_json({'error': 'Not found'}, 404).
RouteNotFound ==
    /\ hp_pc = "route"
    /\ \/ hp_req.method = "GET" /\ hp_req.path # "/api/prices"
       \/ hp_req.method = "POST" /\ hp_req.path # "/api/load"
    /\ AnsweredWith(404, <<Did("route", "not found")>>)
    /\ UNCHANGED <<hp_req, hp_timeout, hp_orig, hp_before>>
    /\ UNCHANGED <<storeVars, rlVars, updVars, rrVars, pvVars, shVars, coVars, ynVars, fpVars, exVars, fdVars, eqVars, mnVars, lgVars, avVars>>

HPNext ==
    \/ Tick
    \/ HandleRequest
    \/ RateLimitPassed
    \/ RateLimitExceeded
    \/ PostTooLarge
    \/ PostSetTimeout
    \/ PostReadBody
    \/ PostReadTimeout
    \/ PostReadReset
    \/ PostDecoded
    \/ PostDecodeError
    \/ RouteGetPrices
    \/ RouteLoadRejected
    \/ RouteLoadLoaded
    \/ RouteLoadFailed
    \/ RouteNotFound


(***************************************************************************)
(* POST /api/log (backend.py): the message is sanitized, truncated and     *)
(* written to the log.  A message is a sequence of runs, each a code point *)
(* repeated a number of times.                                             *)
(***************************************************************************)
MaxRuns == 2

max_length == 500

\* ord(' ') and ord('\t')
SPACE == 32

TAB == 9

\* Code points of the messages: tab, line feed, escape, 'a', delete, and
\* next line (U+0085).
CodePoints == {TAB, 10, 27, 97, 127, 133}

\* Lengths of a run.
RunLengths == {1, max_length - 1, max_length, max_length + 1}

Runs == [code : CodePoints, n : RunLengths]

Messages == SeqsUpTo(Runs, MaxRuns)

\* What json.loads(body) and data.get('message', '') give: the body is no
\* JSON, the body is empty or has no message, the message is no string, the
\* message is a string.
LogBodies ==
    {[kind |-> k, message |-> <<>>] : k \in {"not json", "no message", "not a string"}}
        \cup {[kind |-> "string", message |-> msg] : msg \in Messages}

\* Unicode's control characters (category Cc): U+0000-U+001F, U+007F-U+009F.
IsControl(code) == code < SPACE \/ (code >= 127 /\ code <= 159)

\* len(message)
RECURSIVE RunsLen(_)
RunsLen(runs) ==
    IF runs = <<>> THEN 0 ELSE Head(runs).n + RunsLen(Tail(runs))

\* ''.join(char for char in message if char >= ' ' or char == '\t')
Sanitized(runs) ==
    LET Keep(r) == r.code >= SPACE \/ r.code = TAB
    IN  SelectSeq(runs, Keep)

\* message[:k]
RECURSIVE Slice(_, _)
Slice(runs, k) ==
    IF runs = <<>> \/ k <= 0 THEN <<>>
    ELSE IF Head(runs).n >= k THEN <<[code |-> Head(runs).code, n |-> k]>>
    ELSE <<Head(runs)>> \o Slice(Tail(runs), k - Head(runs).n)

\* The text passed to logger.info: "[UI] ", the message and, if hidden > 0,
\* "... [TRUNCATED: <hidden> chars hidden]".
UILog(message, hidden) == [message |-> message, hidden |-> hidden]

NotLogged == [status |-> 0, logged |-> <<>>]

\* The status sent and the records logged by the branch.
LogBranch(body) ==
    IF body.kind \in {"not json", "not a string"}
    THEN [status |-> 400, logged |-> <<>>]
    ELSE LET sanitized_message == Sanitized(body.message)
             original_length == RunsLen(sanitized_message)
         IN  IF original_length > max_length
             THEN [status |-> 200,
                   logged |-> <<UILog(Slice(sanitized_message, max_length),
                                      original_length - max_length)>>]
             ELSE [status |-> 200, logged |-> <<UILog(sanitized_message, 0)>>]

\* No request for /api/log.
LGIdle ==
    /\ lg_body = [kind |-> "no message", message |-> <<>>]
    /\ lg_out = NotLogged

\* A request for /api/log with a decoded body.
LGInit ==
    /\ lg_body \in LogBodies
    /\ lg_out = NotLogged

\* The branch /api/log of do_POST.
LogEndpoint ==
    /\ lg_out = NotLogged
    /\ lg_out' = LogBranch(lg_body)
    /\ UNCHANGED lg_body
    /\ UNCHANGED <<storeVars, rlVars, updVars, rrVars, pvVars, shVars, coVars, ynVars, fpVars, exVars, fdVars, eqVars, mnVars, hpVars, avVars>>


(***************************************************************************)
(* Equipment items, the assignment of items to request lines and the       *)
(* availability check (equipment/api.py).  Every request of the model has  *)
(* one line, with the id of the request, asking for the equipment type     *)
(* RequestedType.                                                          *)
(***************************************************************************)
MaxItems == 2

ItemIds == 1..MaxItems

EquipmentTypes == {1, 2}

RequestedType == 1

\* location_id: None or the id of the one location.
NoLocation == 0

Warehouse == 1

LocationIds == {Warehouse}

\* ItemCondition, as far as the availability check tells conditions apart.
COND_NEW == "New"

COND_RETIRED == "Retired"

ItemConditions == {COND_NEW, COND_RETIRED}

NoItem == [equipment_type_id |-> 0, location_id |-> NoLocation, condition |-> "no row"]

EquipmentItem(type, location, condition) ==
    [equipment_type_id |-> type, location_id |-> location, condition |-> condition]

\* line.assigned_item_id is None.
Unassigned == 0

\* The rows of request_lines.
Lines == {r \in RequestIds : eq_rows[r] # NoRow}

\* The non-retired items of the type that have the location.
CountedItems(type, location) ==
    {i \in ItemIds : /\ av_items[i] # NoItem
                     /\ av_items[i].equipment_type_id = type
                     /\ av_items[i].condition # COND_RETIRED
                     /\ av_items[i].location_id = location}

\* The rows of request_lines joined with requests and equipment_items that
\* the reserved count counts: one per line whose assigned item has the
\* location and the type and whose request is Approved or Fulfilled.
ReservedLines(type, location) ==
    {l \in Lines : /\ av_assigned[l] # Unassigned
                   /\ av_items[av_assigned[l]].location_id = location
                   /\ av_items[av_assigned[l]].equipment_type_id = type
                   /\ eq_rows[l] \in {APPROVED, FULFILLED}}

AvailabilityResponse(location, total, reserved) ==
    [location_id |-> location, total_items |-> total,
     available_items |-> total - reserved, reserved_items |-> reserved]

\* check_availability(equipment_type_id): one row per location that has a
\* counted item.
check_availability(type) ==
    {AvailabilityResponse(place, Cardinality(CountedItems(type, place)),
                          Cardinality(ReservedLines(type, place))) :
        place \in {x \in LocationIds : CountedItems(type, x) # {}}}

\* Nothing was asked of the items yet.
AVInit ==
    /\ av_items = [i \in ItemIds |-> NoItem]
    /\ av_assigned = [r \in RequestIds |-> Unassigned]
    /\ av_out = {}

\* POST /api/equipment-items: a new item of an existing type, at the
\* location or at none.
CreateEquipmentItem ==
    /\ \E i \in ItemIds, type \in EquipmentTypes,
          location \in LocationIds \cup {NoLocation}, condition \in ItemConditions :
          /\ av_items[i] = NoItem
          /\ \A other \in ItemIds : other < i => av_items[other] # NoItem
          /\ av_items' = [av_items EXCEPT ![i] = EquipmentItem(type, location, condition)]
    /\ UNCHANGED <<av_assigned, av_out>>
    /\ UNCHANGED <<storeVars, rlVars, updVars, rrVars, pvVars, shVars, coVars, ynVars, fpVars, exVars, fdVars, eqVars, mnVars, hpVars, lgVars>>

\* PATCH /api/equipment-items/{item_id}: condition or location_id is set.
UpdateEquipmentItem ==
    /\ \E i \in ItemIds :
          /\ av_items[i] # NoItem
          /\ \/ \E condition \in ItemConditions :
                   av_items' = [av_items EXCEPT ![i].condition = condition]
             \/ \E location \in LocationIds \cup {NoLocation} :
                   av_items' = [av_items EXCEPT ![i].location_id = location]
    /\ UNCHANGED <<av_assigned, av_out>>
    /\ UNCHANGED <<storeVars, rlVars, updVars, rrVars, pvVars, shVars, coVars, ynVars, fpVars, exVars, fdVars, eqVars, mnVars, hpVars, lgVars>>

\* assign_item_to_line: no such request or line, or no such item: 404,
\* nothing is written.
AssignNotFound ==
    /\ \E request_id \in RequestIds, item_id \in ItemIds :
          eq_rows[request_id] = NoRow \/ av_items[item_id] = NoItem
    /\ UNCHANGED <<av_items, av_assigned, av_out>>
    /\ UNCHANGED <<storeVars, rlVars, updVars, rrVars, pvVars, shVars, coVars, ynVars, fpVars, exVars, fdVars, eqVars, mnVars, hpVars, lgVars>>

\* assign_item_to_line: item.equipment_type_id != line.equipment_type_id: 400,
\* nothing is written.
AssignTypeMismatch ==
    /\ \E request_id \in RequestIds, item_id \in ItemIds :
          /\ eq_rows[request_id] # NoRow
          /\ av_items[item_id] # NoItem
          /\ av_items[item_id].equipment_type_id # RequestedType
    /\ UNCHANGED <<av_items, av_assigned, av_out>>
    /\ UNCHANGED <<storeVars, rlVars, updVars, rrVars, pvVars, shVars, coVars, ynVars, fpVars, exVars, fdVars, eqVars, mnVars, hpVars, lgVars>>

\* assign_item_to_line: line.assigned_item_id = item_id; db.commit().
AssignItemToLine ==
    /\ \E request_id \in RequestIds, item_id \in ItemIds :
          /\ eq_rows[request_id] # NoRow
          /\ av_items[item_id] # NoItem
          /\ av_items[item_id].equipment_type_id = RequestedType
          /\ av_assigned' = [av_assigned EXCEPT ![request_id] = item_id]
    /\ UNCHANGED <<av_items, av_out>>
    /\ UNCHANGED <<storeVars, rlVars, updVars, rrVars, pvVars, shVars, coVars, ynVars, fpVars, exVars, fdVars, eqVars, mnVars, hpVars, lgVars>>

\* GET /api/availability?equipment_type_id=...
CheckAvailability ==
    /\ \E type \in EquipmentTypes : av_out' = check_availability(type)
    /\ UNCHANGED <<av_items, av_assigned>>
    /\ UNCHANGED <<storeVars, rlVars, updVars, rrVars, pvVars, shVars, coVars, ynVars, fpVars, exVars, fdVars, eqVars, mnVars, hpVars, lgVars>>

AVNext ==
    \/ CreateRequest
    \/ UpdateRequestNotFound
    \/ UpdateRequestRefused
    \/ UpdateRequestApplied
    \/ CreateEquipmentItem
    \/ UpdateEquipmentItem
    \/ AssignNotFound
    \/ AssignTypeMismatch
    \/ AssignItemToLine
    \/ CheckAvailability


\* The steps of thread t other than taking up a new request.
Acquire(t) ==
    \/ LoadAcquire(t)
    \/ LoadAcqState(t)
    \/ HealthAcqState(t)
    \/ PricesAcqState(t)
    \/ GetPricesAcqState(t)
    \/ ExportAcquire(t)
    \/ ExportAcqState(t)

Proceed(t) ==
    \/ LoadExtract(t)
    \/ LoadPubPath(t)
    \/ LoadPubPrices(t)
    \/ LoadRelState(t)
    \/ LoadExit(t)
    \/ HealthRead(t)
    \/ PricesReadCache(t)
    \/ PricesReadPath(t)
    \/ GetPricesRead(t)
    \/ ExportReadPath(t)
    \/ ExportCheck(t)
    \/ ExportUpdate(t)
    \/ ExportExit(t)

Init == StoreInit /\ RLInit /\ UpdIdle /\ RRIdle /\ PVIdle /\ SHIdle /\ COIdle /\ YNIdle /\ FPIdle /\ EXIdle /\ FDIdle /\ EQInit /\ MNIdle /\ HPIdle /\ LGIdle /\ AVInit

Spec == Init /\ [][StoreNext]_vars

\* The rate limiter alone, called from the threads.
SpecRL == Init /\ [][RLNext]_vars

\* One call of update_prices, with a crash possible at every step.
InitUpd == StoreInit /\ RLInit /\ UpdInit /\ RRIdle /\ PVIdle /\ SHIdle /\ COIdle /\ YNIdle /\ FPIdle /\ EXIdle /\ FDIdle /\ EQInit /\ MNIdle /\ HPIdle /\ LGIdle /\ AVInit

SpecUpd == InitUpd /\ [][UpdNext]_vars

\* One call of _replace_with_retry.  Each step of the function is taken once
\* it is possible: os.replace and time.sleep return or raise.
InitRetry == StoreInit /\ RLInit /\ UpdIdle /\ RRInit /\ PVIdle /\ SHIdle /\ COIdle /\ YNIdle /\ FPIdle /\ EXIdle /\ FDIdle /\ EQInit /\ MNIdle /\ HPIdle /\ LGIdle /\ AVInit

SpecRetry == InitRetry /\ [][RRNext]_vars /\ WF_vars(RRNext)

\* validate_pdf_path applied to every raw path of the bound.
InitPath == StoreInit /\ RLInit /\ UpdIdle /\ RRIdle /\ PVInit /\ SHIdle /\ COIdle /\ YNIdle /\ FPIdle /\ EXIdle /\ FDIdle /\ EQInit /\ MNIdle /\ HPIdle /\ LGIdle /\ AVInit

SpecPath == InitPath /\ [][ValidatePath]_vars

\* The shutdown endpoint and the shutdown threads.  A handler that started
\* runs on, a started thread wakes up after its sleep, and serve_forever
\* notices the shutdown request at its next poll.
InitShutdown == StoreInit /\ RLInit /\ UpdIdle /\ RRIdle /\ PVIdle /\ SHIdle /\ COIdle /\ YNIdle /\ FPIdle /\ EXIdle /\ FDIdle /\ EQInit /\ MNIdle /\ HPIdle /\ LGIdle /\ AVInit

SpecShutdown ==
    /\ InitShutdown
    /\ [][SHNext]_vars
    /\ WF_vars(ShutdownHandler)
    /\ WF_vars(DelayedShutdown)
    /\ WF_vars(ServeForeverExit)

\* Requests for /api/load and /api/export with any Origin header.
InitCors == StoreInit /\ RLInit /\ UpdIdle /\ RRIdle /\ PVIdle /\ SHIdle /\ COIdle /\ YNIdle /\ FPIdle /\ EXIdle /\ FDIdle /\ EQInit /\ MNIdle /\ HPIdle /\ LGIdle /\ AVInit

SpecCors == InitCors /\ [][CorsNext]_vars

\* The output name derived for every input name of the bound.
InitName == StoreInit /\ RLInit /\ UpdIdle /\ RRIdle /\ PVIdle /\ SHIdle /\ COIdle /\ YNInit /\ FPIdle /\ EXIdle /\ FDIdle /\ EQInit /\ MNIdle /\ HPIdle /\ LGIdle /\ AVInit

SpecName == InitName /\ [][DeriveName]_vars

\* format_new_price applied to every validated value of the bound.
InitFormat ==
    StoreInit /\ RLInit /\ UpdIdle /\ RRIdle /\ PVIdle /\ SHIdle /\ COIdle /\ YNIdle /\ FPInit /\ EXIdle /\ FDIdle /\ EQInit /\ MNIdle /\ HPIdle /\ LGIdle /\ AVInit

SpecFormat == InitFormat /\ [][FormatPrice]_vars

\* extract_prices on every document of the bound.
InitExtract ==
    StoreInit /\ RLInit /\ UpdIdle /\ RRIdle /\ PVIdle /\ SHIdle /\ COIdle /\ YNIdle /\ FPIdle /\ EXInit /\ FDIdle /\ EQInit /\ MNIdle /\ HPIdle /\ LGIdle /\ AVInit

SpecExtract == InitExtract /\ [][EXNext]_vars

\* find_description_for_price on every list of spans of the bound.
InitFind ==
    StoreInit /\ RLInit /\ UpdIdle /\ RRIdle /\ PVIdle /\ SHIdle /\ COIdle /\ YNIdle /\ FPIdle /\ EXIdle /\ FDInit /\ EQInit /\ MNIdle /\ HPIdle /\ LGIdle /\ AVInit

SpecFind == InitFind /\ [][FindDescription]_vars

\* The equipment requests.  Every other specification starts with the
\* empty table too and never touches it.
InitRequests ==
    StoreInit /\ RLInit /\ UpdIdle /\ RRIdle /\ PVIdle /\ SHIdle /\ COIdle /\ YNIdle /\ FPIdle /\ EXIdle /\ FDIdle /\ EQInit /\ MNIdle /\ HPIdle /\ LGIdle /\ AVInit

SpecRequests == InitRequests /\ [][EQNext]_vars

\* One run of main, with every argument combination and every outcome of
\* the pre-load, of the bind and of serve_forever.
InitMain ==
    StoreInit /\ RLInit /\ UpdIdle /\ RRIdle /\ PVIdle /\ SHIdle /\ COIdle /\ YNIdle /\ FPIdle /\ EXIdle /\ FDIdle /\ EQInit /\ MNInit /\ HPIdle /\ LGIdle /\ AVInit

SpecMain == InitMain /\ [][MNNext]_vars

\* Requests handled one after the other while the clock advances.
InitHandler ==
    StoreInit /\ RLInit /\ UpdIdle /\ RRIdle /\ PVIdle /\ SHIdle /\ COIdle /\ YNIdle /\ FPIdle /\ EXIdle /\ FDIdle /\ EQInit /\ MNIdle /\ HPIdle /\ LGIdle /\ AVInit

SpecHandler == InitHandler /\ [][HPNext]_vars

\* One request for /api/log with every body of the model.
InitLog ==
    StoreInit /\ RLInit /\ UpdIdle /\ RRIdle /\ PVIdle /\ SHIdle /\ COIdle /\ YNIdle /\ FPIdle /\ EXIdle /\ FDIdle /\ EQInit /\ MNIdle /\ HPIdle /\ LGInit /\ AVInit

SpecLog == InitLog /\ [][LogEndpoint]_vars

\* Items, requests, assignments and availability checks in any order.
InitAvailability ==
    StoreInit /\ RLInit /\ UpdIdle /\ RRIdle /\ PVIdle /\ SHIdle /\ COIdle /\ YNIdle /\ FPIdle /\ EXIdle /\ FDIdle /\ EQInit /\ MNIdle /\ HPIdle /\ LGIdle /\ AVInit

SpecAvailability == InitAvailability /\ [][AVNext]_vars

\* Fair scheduling: a thread whose next step is possible again and again
\* eventually takes it (a runnable thread runs; a thread waiting for a lock
\* that is free again and again eventually gets it). extract_prices and
\* update_prices are single steps, so they terminate.
FairSpec ==
    /\ Init
    /\ [][StoreNext]_vars
    /\ \A t \in Threads : SF_vars(Acquire(t) \/ Proceed(t))

\* The steps of the readers get_current_pdf_path, get_prices_with_path and
\* get_prices.
ReaderStep(t) ==
    \/ HealthAcqState(t)
    \/ HealthRead(t)
    \/ PricesAcqState(t)
    \/ PricesReadCache(t)
    \/ PricesReadPath(t)
    \/ GetPricesAcqState(t)
    \/ GetPricesRead(t)

\* The steps a load or an export takes while it holds state_lock.
UnderStateLock(t) ==
    \/ LoadPubPath(t)
    \/ LoadPubPrices(t)
    \/ LoadRelState(t)
    \/ ExportReadPath(t)

\* Readers are scheduled fairly and a block under state_lock (two
\* assignments or one read) runs through, while extract_prices and
\* update_prices, which run under load_lock only, may take arbitrarily long.
ReaderSpec ==
    /\ Init
    /\ [][StoreNext]_vars
    /\ \A t \in Threads : SF_vars(ReaderStep(t)) /\ WF_vars(UnderStateLock(t))

(***************************************************************************)
(* Claims about the document state store.                                  *)
(***************************************************************************)
LoadCritical == {"l_extract", "l_swait", "l_pub1", "l_pub2", "l_srel"}
LoadPcs == LoadCritical \cup {"l_wait", "l_exit"}
ExportHolding == {"e_check", "e_update", "e_exit"}
ExportPcs == ExportHolding \cup {"e_wait", "e_swait", "e_read"}
WaitsLoadLock == {"l_wait", "e_wait"}
WaitsStateLock == {"l_swait", "h_wait", "p_wait", "g_wait", "e_swait"}

\* C1: every (prices, path) pair get_prices_with_path returns holds the
\* prices extracted from that very path; and when no load is in progress the
\* current path and the cached prices both belong to the document whose load
\* published last.
C1_ConsistentPair ==
    /\ \A t \in Threads :
          ret[t].kind = "prices" => ret[t].prices = extract_prices(ret[t].path)
    /\ ((\A t \in Threads : pc[t] \notin LoadPcs) /\ lastPub # None)
          => /\ current_pdf_path = lastPub
             /\ prices_cache = extract_prices(lastPub)

\* A reader got a pair while another thread, loading a different document,
\* had extracted it and was about to publish.
C1_Witness ==
    \E t, u \in Threads :
        /\ ret[t].kind = "prices" /\ pc[t] = "idle"
        /\ pc[u] = "l_swait" /\ arg[u] # ret[t].path

\* C2: at most one load_pdf call is between the start of its extraction and
\* the end of its publication.
C2_LoadsSerialized ==
    Cardinality({t \in Threads : pc[t] \in LoadCritical}) <= 1

\* One load is publishing while a second one waits for load_lock.
C2_Witness ==
    \E t, u \in Threads : pc[t] = "l_pub2" /\ pc[u] = "l_wait"

\* C3: from the export's read of the current path to the return of
\* update_prices (and until the export leaves the block), the path it read is
\* the current path, no load is publishing and no other export has read or
\* is reading the path.
C3_ExportPathStable ==
    \A t \in Threads :
        pc[t] \in ExportHolding =>
            /\ current_pdf_path = pdf_path_l[t]
            /\ \A u \in Threads \ {t} :
                  pc[u] \notin (ExportHolding \cup {"e_read", "l_pub1", "l_pub2", "l_srel"})

\* update_prices has returned for an export of a loaded document while a
\* load of another document is waiting to begin.
C3_Witness ==
    \E t, u \in Threads :
        /\ pc[t] = "e_exit" /\ ret[t].kind = "export_returned"
        /\ pc[u] = "l_wait" /\ arg[u] # pdf_path_l[t]

\* Thread t can take its next step now.
CanRun(t) == ENABLED (Acquire(t) \/ Proceed(t))

\* The thread holding the lock t is waiting for (0: none, or the lock is free).
Blocker(t) ==
    IF pc[t] \in WaitsLoadLock THEN load_lock
    ELSE IF pc[t] \in WaitsStateLock THEN state_lock
    ELSE 0

\* C4: a thread requesting load_lock holds no lock, a thread requesting
\* state_lock does not hold state_lock (it holds nothing or load_lock), and
\* every request in progress can take a step or waits for a lock whose holder
\* can take a step (possibly after the holder of the lock that one waits
\* for): no deadlock.
C4_LockOrderNoDeadlock ==
    /\ \A t \in Threads :
          pc[t] \in WaitsLoadLock => state_lock # t /\ load_lock # t
    /\ \A t \in Threads :
          pc[t] \in WaitsStateLock => state_lock # t
    /\ \A t \in Threads :
          pc[t] # "idle" =>
             \/ CanRun(t)
             \/ /\ Blocker(t) \in Threads \ {t}
                /\ \/ CanRun(Blocker(t))
                   \/ /\ Blocker(Blocker(t)) \in Threads \ {t, Blocker(t)}
                      /\ CanRun(Blocker(Blocker(t)))

\* A load holding load_lock waits for state_lock, which a reader holds.
C4_Witness ==
    \E t, u \in Threads :
        /\ pc[t] = "l_swait" /\ load_lock = t
        /\ pc[u] = "p_read2" /\ state_lock = u

\* C5: under fair scheduling every request that has started finishes (a
\* thread is idle again and again, so whenever it is inside a load or an
\* export it gets out), and a thread that is not inside a load or export
\* never holds load_lock (it is released on every way out).
C5_LoadExportTerminate ==
    /\ \A t \in Threads : []<>(pc[t] = "idle")
    /\ [](\A t \in Threads :
            pc[t] \notin (LoadPcs \cup ExportPcs) => load_lock # t)

\* An export returned early (no document, or invalid output path) or a
\* load's extraction raised, and the other thread holds load_lock afterwards.
C5_Witness ==
    \E t, u \in Threads :
        /\ pc[t] = "idle"
        /\ ret[t].kind \in {"export_no_pdf", "export_bad_output", "export_raised", "load_error"}
        /\ load_lock = u /\ u # t

(***************************************************************************)
(* Claims about the RateLimiter.                                           *)
(***************************************************************************)
\* The finished calls for endpoint k, in the order they held the lock.
KeyCalls(k) ==
    LET Mine(c) == c.key = k
    IN  SelectSeq(calls, Mine)

\* The number of entries of the sequence ts equal to v.
Count(ts, v) == Cardinality({i \in 1..Len(ts) : ts[i] = v})

C7_AtMostMaxPerWindow ==
    \A k \in Endpoints : \A a \in 0..MaxTime :
        Cardinality({i \in 1..Len(calls) :
                        /\ calls[i].key = k
                        /\ calls[i].ok
                        /\ a <= calls[i].now
                        /\ calls[i].now < a + WindowTicks}) <= MaxRequests

(***************************************************************************)
(* update_prices: properties                                               *)
(***************************************************************************)
\* A finite number, and its size (a Huge int is larger than every bound).
Finite(x) == x.t \in {"num", "huge"}
Magnitude(x) == IF x.t = "huge" THEN 2 * MaxNewValue ELSE x.v

\* The structural checks as the contract words them.
BboxOK(b) ==
    /\ b.list
    /\ Len(b.items) = 4
    /\ \A k \in 1..4 : Finite(b.items[k]) /\ Magnitude(b.items[k]) >= 0
    /\ Magnitude(b.items[3]) - Magnitude(b.items[1]) >= MIN_BBOX_DIMENSION
    /\ Magnitude(b.items[4]) - Magnitude(b.items[2]) >= MIN_BBOX_DIMENSION

ColorOK(c) ==
    /\ c.list
    /\ Len(c.items) = 3
    /\ \A k \in 1..3 :
          Finite(c.items[k]) /\ Magnitude(c.items[k]) >= 0 /\ Magnitude(c.items[k]) <= ColorMax

StructOK(u) ==
    /\ \A k \in 1..Len(RequiredFields) : RequiredFields[k] \in u.has
    /\ BboxOK(u.bbox)
    /\ Finite(u.font_size) /\ Magnitude(u.font_size) > 0
    /\ Finite(u.new_value) /\ Magnitude(u.new_value) > 0 /\ Magnitude(u.new_value) <= MaxNewValue
    /\ ColorOK(u.color)

SomeStructBad == \E i \in 1..Len(u_reqs) : ~StructOK(u_reqs[i])

\* What a call that is refused before any work looks like: nothing opened,
\* no file operation, the files as they were, and at the return a failure
\* with no updated entry and one error.
RefusedUpFront ==
    /\ ~opened
    /\ io = <<>>
    /\ fs = fs0
    /\ u_pc = "returned" =>
          /\ ~u_res.success
          /\ u_res.updated = <<>>
          /\ Len(u_res.errors) = 1

\* C8: a batch holding a request that fails a structural check makes
\* update_prices return success=false with an empty updated list and exactly
\* one error, wherever the bad request stands and whatever the others are,
\* before the document is opened: no temporary file, no change to the output
\* path, and the call returns rather than raising.
C8_StructuralFailureReturns ==
    SomeStructBad => (RefusedUpFront /\ u_pc # "raised")

\* The part of C8 the code keeps: batches without a Huge int.
HasHuge(u) ==
    \/ Overflows(u.font_size)
    \/ Overflows(u.new_value)
    \/ \E k \in 1..Len(u.bbox.items) : Overflows(u.bbox.items[k])
    \/ \E k \in 1..Len(u.color.items) : Overflows(u.color.items[k])

StructuralFailureReturns_NoHugeInt ==
    (SomeStructBad /\ \A i \in 1..Len(u_reqs) : ~HasHuge(u_reqs[i]))
        => (RefusedUpFront /\ u_pc # "raised")

\* The real file behind a path: the spelling normalised, a link followed.
Resolved(p) ==
    LET q == IF p = "./in.pdf" THEN "in.pdf" ELSE p
    IN  IF links[Entry(q)] = None THEN q ELSE links[Entry(q)]

\* What the output path holds.
Holds == fs[Entry(Resolved(u_out))]

\* C9: when input and output resolve to the same real file (the same path,
\* another spelling of it, or through a symbolic link in either direction),
\* update_prices returns success=false with the one same-path error before
\* validating the requests, opening the document or touching any file.
C9_SamePathRefused ==
    (u_pc # "none" /\ Resolved(u_in) = Resolved(u_out)) =>
        /\ RefusedUpFront
        /\ u_pc \in {"start", "returned", "crashed"}
        /\ u_pc = "returned" => u_res.errors[1].code = "same_path"

C9_Witness ==
    /\ u_pc = "returned"
    /\ u_in # u_out
    /\ \E n \in Names : links[n] # None
    /\ Resolved(u_in) = Resolved(u_out)
    /\ SomeStructBad
    /\ u_res.errors[1].code = "same_path"

Replaces == Cardinality({k \in 1..Len(io) : io[k] = "replace"})

\* C10: in every state, a crash at any step included, the output path holds
\* what it held before the call (possibly nothing) until the one os.replace,
\* and the complete new document after it; it is never empty or partial.
C10_OutputOldOrComplete ==
    /\ Replaces <= 1
    /\ IF Replaces = 0 THEN Holds = fs0[Entry(Resolved(u_out))] ELSE Holds = "new"

C10_Witness ==
    /\ u_pc = "crashed"
    /\ fs[TmpName] = "partial"
    /\ Holds = "old"

\* update_prices is over (returned or raised) after a failed save or a failed
\* replace: the temporary file was created and the replace never happened.
FailedAtSaveOrReplace ==
    /\ u_pc \in {"returned", "raised"}
    /\ \E k \in 1..Len(io) : io[k] = "mkstemp"
    /\ Replaces = 0

\* C11: once update_prices is over after a failed save or replace, whatever
\* the class of the error, the temporary file is gone and the output path
\* holds what it held before the call.
C11_FailureLeavesNoTemp ==
    FailedAtSaveOrReplace =>
        /\ fs[TmpName] = "absent"
        /\ Holds = fs0[Entry(Resolved(u_out))]

\* C12: every failed save or replace, whatever the class of the error, ends
\* in a returned result with success=false and an error, never in an
\* exception reaching the caller.
C12_FailureIsReturned ==
    FailedAtSaveOrReplace =>
        /\ u_pc = "returned"
        /\ ~u_res.success
        /\ Len(u_res.errors) >= 1

\* The loop over the pages ran through: the results and the document
\* operations of the call are final but for save, replace and verification.
PagesDone ==
    \/ u_pc \in {"mkstemp", "save", "saving", "replace", "verify"}
    \/ u_pc = "returned" /\ opened

PageInDoc(u) == u.page_num.t = "num" /\ u.page_num.v >= 0 /\ u.page_num.v < NPages

\* The bbox reaches more than the tolerance beyond the width or the height
\* of the request's page.
OutOfBounds(u) ==
    /\ PageInDoc(u)
    /\ \/ u.bbox.items[3].v > PageWidth + Tolerance
       \/ u.bbox.items[4].v > PageHeight + Tolerance

Redacted(i) == \E k \in 1..Len(doc_ops) : doc_ops[k].op = "redact" /\ doc_ops[k].index = i
Inserted(i) == \E k \in 1..Len(doc_ops) : doc_ops[k].op = "insert" /\ doc_ops[k].index = i
TimesUpdated(i) == Cardinality({k \in 1..Len(u_res.updated) : u_res.updated[k].index = i})
ErrorsOf(i) == {k \in 1..Len(u_res.errors) : u_res.errors[k].index = i}
ErrorsCoded(c) == {k \in 1..Len(u_res.errors) : u_res.errors[k].code = c}

\* The page values of the batch that are integers outside the document.
PagesOutside ==
    {u_reqs[i].page_num.v : i \in {j \in 1..Len(u_reqs) :
        u_reqs[j].page_num.t = "num" /\ ~PageInDoc(u_reqs[j])}}

InsertCodes == {"insert_text_zero", "insert_text_negative"}

\* The errors recorded for the insertion of request i.
InsertErrorsOf(i) == {k \in ErrorsOf(i) : u_res.errors[k].code \in InsertCodes}

\* The call returned with neither the save nor the replace failing.
ReturnedAfterSave ==
    /\ u_pc = "returned"
    /\ opened
    /\ ErrorsCoded("save_failed") = {}
    /\ ErrorsCoded("replace_failed") = {}

Attempts == {k \in 1..Len(rr_log) : rr_log[k].call = "os.replace"}
Sleeps == {k \in 1..Len(rr_log) : rr_log[k].call = "time.sleep"}

RECURSIVE Power(_, _)
Power(b, n) == IF n = 0 THEN 1 ELSE b * Power(b, n - 1)

\* The safety part of C16, on win32.
RetryDiscipline ==
    /\ Cardinality(Attempts) <= WINDOWS_REPLACE_MAX_RETRIES
    /\ Cardinality(Sleeps) <= WINDOWS_REPLACE_MAX_RETRIES - 1
    /\ \A k \in Attempts : rr_log[k].arg = Returned => (k = Len(rr_log) /\ rr_out = Returned)
    /\ \A k \in Sleeps :
          /\ k - 1 \in Attempts
          /\ rr_log[k - 1].arg \in LockErrors
          /\ k < Len(rr_log) => k + 1 \in Attempts
          /\ rr_pc = "done" => k < Len(rr_log)
          /\ rr_log[k].arg =
                WINDOWS_REPLACE_INITIAL_DELAY
                   * Power(WINDOWS_REPLACE_BACKOFF_FACTOR, Cardinality({j \in Sleeps : j < k}))
    /\ (rr_pc = "done" /\ rr_out \in LockErrors) =>
          /\ Cardinality(Attempts) = WINDOWS_REPLACE_MAX_RETRIES
          /\ \A k \in Attempts : rr_log[k].arg \in LockErrors
          /\ rr_out = rr_log[Len(rr_log)].arg
    /\ (rr_pc = "done" /\ Cardinality({k \in Attempts : rr_log[k].arg \in LockErrors})
                             = WINDOWS_REPLACE_MAX_RETRIES) =>
          rr_out = rr_log[Len(rr_log)].arg

\* C16: on win32 _replace_with_retry makes at most 5 replace attempts and
\* stops at the first success; it sleeps only between two consecutive
\* attempts, 0.1, 0.2, 0.4, 0.8 s in turn, never after the last attempt;
\* after 5 lock errors it raises the last of them; and it always terminates.
C16_RetryWithBackoff ==
    /\ [](platform = "win32" /\ rr_pc # "none" => RetryDiscipline)
    /\ (platform = "win32" /\ rr_pc # "none") => <>(rr_pc = "done")

\* Five lock errors, the last unlike the first, four sleeps, the last raised.
C16_Witness ==
    /\ platform = "win32"
    /\ rr_pc = "done"
    /\ Cardinality(Attempts) = 5
    /\ Cardinality(Sleeps) = 4
    /\ rr_log[8].arg = 8
    /\ rr_out \in LockErrors
    /\ rr_out # rr_log[1].arg

LastSeg(p) == p.segs[Len(p.segs)]
HasDotDot(p) == \E k \in 1..Len(p.segs) : p.segs[k] = ".."
\* Resolution fails on a link that leads back to itself.
ResolvesOK(p) == \A k \in 1..Len(p.segs) : p.segs[k] # "loop.pdf"
\* Names with the extension .pdf in some letter case.
PdfNames == {"b.pdf", "B.PDF", "link.pdf", "loop.pdf"}
\* The file a name leads to: the link's target for a link.
LeadsTo(name) ==
    IF name = "link.pdf" THEN "notes.txt" ELSE IF name = "doc" THEN "b.pdf" ELSE name

PathResultShape ==
    /\ pv_out.kind = "returned" =>
          /\ pv_out.path.abs
          /\ pv_out.path.segs # <<>>
          /\ LastSeg(pv_out.path) \in PdfNames
    /\ pv_out.kind # "returned" => pv_out.kind = "ValueError"

\* C18 as stated: validate_pdf_path returns a value exactly when the raw
\* path is non-empty, has no ".." segment, resolves to an absolute path and
\* has a .pdf extension (any letter case); the value is absolute and ends in
\* .pdf; every other input raises a validation error.
C18_ReturnsIffRawPathValid ==
    pv_out # NotCalled =>
        /\ pv_out.kind = "returned" <=>
              /\ pv_in # EmptyPath
              /\ ~HasDotDot(pv_in)
              /\ ResolvesOK(pv_in)
              /\ pv_in.segs # <<>>
              /\ LastSeg(pv_in) \in PdfNames
        /\ PathResultShape

\* C18 amended: the extension that counts is that of the resolved path, the
\* link's target when the last segment is a symbolic link.
C18_ReturnsIffResolvedPdf ==
    pv_out # NotCalled =>
        /\ pv_out.kind = "returned" <=>
              /\ pv_in # EmptyPath
              /\ ~HasDotDot(pv_in)
              /\ ResolvesOK(pv_in)
              /\ pv_in.segs # <<>>
              /\ LeadsTo(LastSeg(pv_in)) \in PdfNames
        /\ PathResultShape

\* A raw path ending in .pdf that is a link to a text file is refused.
C18_Witness ==
    /\ pv_in.segs # <<>>
    /\ LastSeg(pv_in) = "link.pdf"
    /\ ~HasDotDot(pv_in)
    /\ pv_out.kind = "ValueError"
    /\ pv_out.msg = "File must have a .pdf extension"

(***************************************************************************)
(* Claims about the shutdown endpoint.                                     *)
(***************************************************************************)
\* The addresses of the loopback interface among ClientAddrs: 127.0.0.0/8
\* and ::1.
LoopbackAddrs == {"127.0.0.1", "::1", "127.0.0.2"}

ShutdownIds == 1..Len(sh_reqs)

\* The token a request supplies: the 'token' member of its JSON object.
SuppliedToken(r) == IF r.body.kind = "object" THEN r.body.token ELSE JNone

TokenEqualsSecret(r) ==
    shutdown_token # None /\ SuppliedToken(r) = JStr(shutdown_token)

\* Request rid has the event ev in the log.
Logged(ev, rid) == \E i \in 1..Len(sh_log) : sh_log[i] = Event(ev, rid)

\* A shutdown was initiated for request rid: its thread was started.
Initiated(rid) == Logged("thread", rid) \/ Logged("shutdown", rid)

\* C19: over any sequence of shutdown requests, a shutdown is initiated only
\* for a request from a loopback address whose token equals the secret of
\* the run; without a secret, or with a missing or different token, none is
\* initiated, and the server stops for no other reason.
C19_ShutdownOnlyWhenAuthorised ==
    /\ \A rid \in ShutdownIds :
          Initiated(rid) =>
             /\ sh_reqs[rid].addr \in LoopbackAddrs
             /\ TokenEqualsSecret(sh_reqs[rid])
    /\ shutdown_token = None => sh_threads = {} /\ sh_pc # "start_thread"
    /\ sh_threads \subseteq {rid \in ShutdownIds : TokenEqualsSecret(sh_reqs[rid])}
    /\ server_state \in {"stopping", "stopped"} =>
          \E rid \in ShutdownIds : Logged("shutdown", rid)

\* Two requests carried the secret: the remote one was refused, the local
\* one led to the shutdown call.
C19_Witness ==
    \E a, b \in ShutdownIds :
       /\ sh_reqs[a].addr \notin LoopbackAddrs
       /\ TokenEqualsSecret(sh_reqs[a])
       /\ sh_reqs[a].answer = Answer(403)
       /\ ~Initiated(a)
       /\ Logged("shutdown", b)

\* The position of an event in the log, 0 if it is not there.
LogIndex(ev, rid) ==
    IF Logged(ev, rid)
    THEN CHOOSE i \in 1..Len(sh_log) : sh_log[i] = Event(ev, rid)
    ELSE 0

Finished(rid) == sh_reqs[rid].answer # Pending /\ (rid = Len(sh_reqs) => sh_pc # "route")

\* The answers the statement prescribes for a finished request.
AnsweredAsStated(rid) ==
    LET r == sh_reqs[rid]
    IN  /\ r.addr \notin LoopbackAddrs => r.answer = Answer(403)
        /\ r.addr \in LoopbackAddrs /\ ~TokenEqualsSecret(r) => r.answer = Answer(401)

\* The acknowledgment of an accepted request comes before its shutdown call.
AckBeforeShutdown(rid) ==
    Logged("shutdown", rid) =>
       /\ Logged("response", rid)
       /\ LogIndex("response", rid) < LogIndex("shutdown", rid)

ShutdownCalled == \E rid \in ShutdownIds : Logged("shutdown", rid)

\* C20: a request from outside loopback is answered 403 whatever its token,
\* a loopback request with a missing or wrong token is answered 401, and an
\* accepted request is acknowledged before the shutdown starts, which then
\* eventually happens.
C20_ShutdownAnswersAndOrder ==
    /\ [](\A rid \in ShutdownIds :
             /\ Finished(rid) => AnsweredAsStated(rid)
             /\ AckBeforeShutdown(rid))
    /\ \A n \in 1..MaxShutdownRequests :
          (n \in ShutdownIds /\ sh_reqs[n].answer = Answer(200)) ~> ShutdownCalled

\* A step in which get_prices_with_path or get_prices of thread t comes back.
ReaderReturns(t) == pc[t] \in {"p_read2", "g_read"} /\ pc'[t] = "idle"

\* C24: get_prices_with_path and get_prices raise the not-loaded error
\* exactly when no load has published yet; after the first successful load
\* they never raise it, whatever loads fail or succeed afterwards.
C24_NotLoadedIffNeverLoaded ==
    [][\A t \in Threads :
          ReaderReturns(t) => (ret'[t].kind = "not_loaded" <=> lastPub = None)]_vars

\* After one load succeeded and a later one failed, both readers returned
\* data; thread t has just got the prices, thread u the failed load.
C24_Witness ==
    \E t, u \in Threads :
       /\ lastPub # None
       /\ ret[t].kind \in {"prices", "cached"} /\ pc[t] = "idle"
       /\ ret[u].kind = "load_error"

\* A step in which the is_allowed call of thread t runs its locked part.
RLChecks(t) == rl_pc[t] = "wait" /\ rl_pc'[t] = "idle"

\* The stored timestamps of ts that count at a call made at time now, when
\* those not older than now - window count (NotOlder) and when only those
\* newer than now - window count (Newer).
NotOlder(ts, now) ==
    LET Keep(x) == x >= now - WindowTicks
    IN  SelectSeq(ts, Keep)

Newer(ts, now) ==
    LET Keep(x) == x > now - WindowTicks
    IN  SelectSeq(ts, Keep)

\* The call of thread t decides on the timestamps counted and stores them,
\* with its own timestamp after them when it is admitted.
DecidesOn(t, counted) ==
    LET k == rl_key[t]
        ok == calls'[Len(calls')].ok
    IN  /\ ok <=> Len(counted) < MaxRequests
        /\ requests'[k] = IF ok THEN Append(counted, rl_now[t]) ELSE counted

\* C29 as stated: an admitted timestamp t counts against the limit at a call
\* made at time now whenever t >= now - window; only the strictly older ones
\* are discarded.
C29_CountsWhenNotOlder ==
    [][\A t \in Threads :
          RLChecks(t) => DecidesOn(t, NotOlder(requests[rl_key[t]], rl_now[t]))]_vars

\* C29 amended: an admitted timestamp t counts at a call made at time now
\* whenever t > now - window; those at or before now - window are discarded.
C29_CountsWhenNewer ==
    [][\A t \in Threads :
          RLChecks(t) => DecidesOn(t, Newer(requests[rl_key[t]], rl_now[t]))]_vars

\* An endpoint was filled at one instant and a call exactly one window later
\* was admitted, the stored timestamps of that instant being discarded.
C29_Witness ==
    \E k \in Endpoints :
        LET kc == KeyCalls(k)
        IN  /\ Len(kc) = MaxRequests + 1
            /\ \A i \in 1..MaxRequests : kc[i].ok /\ kc[i].now = kc[1].now
            /\ kc[MaxRequests + 1].now = kc[1].now + WindowTicks
            /\ kc[MaxRequests + 1].ok
            /\ requests[k] = <<kc[MaxRequests + 1].now>>

\* C28: every request's page index is checked before the document is
\* mutated: when some request of the batch has a page index that is no
\* integer or lies outside the document, no page is redacted and no text is
\* inserted.
C28_PageCheckedBeforeMutation ==
    (\E i \in 1..Len(u_reqs) : ~PageInDoc(u_reqs[i]))
       => \A k \in 1..Len(doc_ops) : doc_ops[k].op \notin {"redact", "insert"}

(***************************************************************************)
(* Claims about CORS.                                                      *)
(***************************************************************************)
IsDecimal(s) == Len(s) > 0 /\ \A i \in 1..Len(s) : s[i] \in Digits

\* The allow-list as the contract words it: the two local hosts, bare or
\* followed by ':' and a decimal port in 1..65535, and the bare file scheme.
AllowedOrigin(o) ==
    \/ o \in {HttpLocalhost, HttpLoopback, FileScheme}
    \/ \E b \in {HttpLocalhost, HttpLoopback} :
          /\ startswith(o, b \o <<":">>)
          /\ LET p == SubSeq(o, Len(b) + 2, Len(o))
             IN  IsDecimal(p) /\ 1 <= DecimalValue(p) /\ DecimalValue(p) <= 65535

\* C21: _get_cors_origin returns the Origin exactly when it is in the
\* allow-list; for every other origin it returns nothing and no CORS headers
\* are sent.
C21_OriginReturnedIffAllowed ==
    co_pc = "responded" =>
       IF AllowedOrigin(co_req.origin)
       THEN co_resp.cors = CorsOrigin(co_req.origin) /\ co_resp.headers
       ELSE co_resp.cors = CorsNone /\ ~co_resp.headers

\* C30: a load or export request whose Origin is outside the allow-list is
\* refused before any mutation: no step of its handling changes the current
\* document or writes an output file.
C30_ForeignOriginMutatesNothing ==
    [][(co_req.route \in Routes /\ ~AllowedOrigin(co_req.origin))
          => /\ co_doc'.current = co_doc.current
             /\ co_doc'.output = co_doc.output]_vars

(***************************************************************************)
(* Claims about the derived output name.                                   *)
(***************************************************************************)
\* Position i of the name s starts a 4-digit year in 2020..2099 delimited on
\* each side by an end of the name or by '_', '-', '.' or a blank.
DelimitedYear(s, i) ==
    /\ i + 3 <= Len(s)
    /\ IsDecimal(SubSeq(s, i, i + 3))
    /\ 2020 <= DecimalValue(SubSeq(s, i, i + 3))
    /\ DecimalValue(SubSeq(s, i, i + 3)) <= 2099
    /\ (i = 1 \/ s[i - 1] \in {"_", "-", ".", " "})
    /\ (i + 3 = Len(s) \/ s[i + 4] \in {"_", "-", ".", " "})

\* C22: the derived name has the first delimited year 2020..2099 replaced by
\* that year plus one and every other character unchanged; when the name
\* has no such year it is the input name followed by '_updated'.
C22_FirstYearIncremented ==
    yn_out # <<>> =>
       LET years == {i \in 1..Len(yn_in) : DelimitedYear(yn_in, i)}
           i == CHOOSE k \in years : \A j \in years : k <= j
       IN  IF years = {}
           THEN yn_out = yn_in \o <<"_", "u", "p", "d", "a", "t", "e", "d">>
           ELSE /\ Len(yn_out) = Len(yn_in)
                /\ \A k \in 1..Len(yn_in) : (k < i \/ k > i + 3) => yn_out[k] = yn_in[k]
                /\ IsDecimal(SubSeq(yn_out, i, i + 3))
                /\ DecimalValue(SubSeq(yn_out, i, i + 3))
                      = DecimalValue(SubSeq(yn_in, i, i + 3)) + 1

\* 'x2025_2099': the year inside the code is left alone and 2099 becomes 2100.
C22_Witness ==
    /\ yn_in = <<"x", "2", "0", "2", "5", "_", "2", "0", "9", "9">>
    /\ yn_out = <<"x", "2", "0", "2", "5", "_", "2", "1", "0", "0">>

(***************************************************************************)
(* Claims about formatting and parsing prices.                             *)
(***************************************************************************)
\* C23: for every validated new value v and suffix flag h the text of
\* format_new_price(v, h) fully matches the price pattern and
\* parse_price_value of it returns (v, h).
C23_FormatParseRoundTrip ==
    fp_text # <<>> =>
       /\ FullMatch(fp_text)
       /\ parse_price_value(fp_text)
             = [raised |-> FALSE, value |-> fp_in.value, has_hr |-> fp_in.has_hr]

(***************************************************************************)
(* Claims about extract_prices.                                            *)
(***************************************************************************)
\* The positions (page index from 0, span position) of the document.
SpanPositions ==
    {ps \in (0..(Len(ex_doc) - 1)) \X (1..MaxPageSpans) : ps[2] <= Len(ex_doc[ps[1] + 1])}

TextAt(ps) == ex_doc[ps[1] + 1][ps[2]]

\* The span matches the price pattern and its numeric parsing succeeds.
Parses(ps) == FullMatch(TextAt(ps)) /\ ~parse_price_value(TextAt(ps)).raised

\* The span matches the price pattern and its numeric parsing fails.
FailsParsing(ps) == FullMatch(TextAt(ps)) /\ parse_price_value(TextAt(ps)).raised

\* Page order, then span order within the page.
Earlier(a, b) == a[1] < b[1] \/ (a[1] = b[1] /\ a[2] < b[2])

ItemPosition(item) == <<item.page_num, item.span>>

\* C25: the items returned by extract_prices carry the ids 0, 1, 2, ...
\* without gaps, in page order and then span order; they are the spans that
\* match the price pattern and parse, so that a span that matches and fails
\* numeric parsing has no item, takes no id and does not stop the spans and
\* pages after it from being extracted.
C25_SequentialIdsSkippingUnparseable ==
    ex_pc = "done" =>
       /\ \A i \in 1..Len(prices) : prices[i].id = i - 1
       /\ \A i, j \in 1..Len(prices) :
             i < j => Earlier(ItemPosition(prices[i]), ItemPosition(prices[j]))
       /\ \A ps \in SpanPositions :
             Parses(ps) <=> \E i \in 1..Len(prices) :
                               /\ ItemPosition(prices[i]) = ps
                               /\ prices[i].text = TextAt(ps)
       /\ \A i \in 1..Len(prices) : ItemPosition(prices[i]) \in SpanPositions

\* An extraction has returned items from two pages, with a span that failed
\* numeric parsing between two of them.
C25_Witness ==
    /\ ex_pc = "done"
    /\ Len(prices) >= 2
    /\ prices[1].page_num # prices[Len(prices)].page_num
    /\ \E ps \in SpanPositions :
          /\ FailsParsing(ps)
          /\ Earlier(ItemPosition(prices[1]), ps)
          /\ Earlier(ps, ItemPosition(prices[Len(prices)]))

(***************************************************************************)
(* Claims about find_description_for_price.                                *)
(***************************************************************************)
\* A non-price span: its text is not empty and is not a price, that is,
\* does not fully match the price pattern.
NonPrice(span) == strip(span.text) # <<>> /\ ~FullMatch(strip(span.text))

AllSpans == {fd_spans[i] : i \in 1..Len(fd_spans)}

\* The non-price spans on the line of the price and left of it.
SameLineSpans == {s \in AllSpans : NonPrice(s) /\ OnSameLineLeft(s, fd_price)}

\* The non-price spans ending above the price and overlapping it.
AboveSpans == {s \in AllSpans : NonPrice(s) /\ AboveOverlapping(s, fd_price)}

HorizontalGap(s) == fd_price[1] - s.bbox[3]

VerticalGap(s) == fd_price[2] - s.bbox[4]

\* C26: the description is the text of a same-line span left of the price
\* with the smallest horizontal gap if there is one, otherwise the text of
\* a span above the price with the smallest vertical gap if there is one,
\* otherwise 'Unknown item'.
C26_NearestDescription ==
    fd_out # <<>> =>
       IF SameLineSpans # {}
       THEN \E s \in SameLineSpans :
               /\ fd_out = strip(s.text)
               /\ \A r \in SameLineSpans : HorizontalGap(s) <= HorizontalGap(r)
       ELSE IF AboveSpans # {}
       THEN \E s \in AboveSpans :
               /\ fd_out = strip(s.text)
               /\ \A r \in AboveSpans : VerticalGap(s) <= VerticalGap(r)
       ELSE fd_out = UnknownItem

(***************************************************************************)
(* Claims about the status of equipment requests.                          *)
(***************************************************************************)
\* The transitions of the claim.
AllowedTransitions ==
    { <<SUBMITTED, APPROVED>>, <<SUBMITTED, DENIED>>, <<APPROVED, FULFILLED>>,
      <<APPROVED, DENIED>>, <<FULFILLED, RETURNED>> }

\* C27: a stored status changes only along Submitted to Approved or Denied,
\* Approved to Fulfilled or Denied, and Fulfilled to Returned; every other
\* transition requested of an existing request, out of Denied or Returned
\* included, is answered with 400 and leaves the stored status as it was.
C27_OnlyAllowedTransitions ==
    [][ /\ \A id \in RequestIds :
              (eq_rows[id] # NoRow /\ eq_rows'[id] # eq_rows[id])
                 => <<eq_rows[id], eq_rows'[id]>> \in AllowedTransitions
        /\ Len(eq_log') > Len(eq_log) =>
              LET e == eq_log'[Len(eq_log')]
              IN  (e.current # NoRow /\ <<e.current, e.new>> \notin AllowedTransitions)
                     => (e.code = 400 /\ eq_rows'[e.request_id] = e.current)
      ]_vars

\* The thread is inside a load whose extraction raised.
FailedLoad(t) == pc[t] = "l_exit" /\ ret[t].kind = "load_error"

\* The thread takes a step.
Moves(t) == pc'[t] # pc[t]

\* C34: a load whose extraction raises changes neither the current path nor
\* the cached prices; either of them is changed only by the publication of a
\* load whose extraction succeeded, which sets the path it loaded and the
\* prices extracted from it; and outside a publication the two belong to one
\* document (or both are unset).
C34_FailedLoadChangesNothing ==
    /\ [](state_lock = 0 =>
             \/ current_pdf_path = None /\ prices_cache = NonePrices
             \/ current_pdf_path # None /\ prices_cache = extract_prices(current_pdf_path))
    /\ [][ /\ \A t \in Threads :
                 (Moves(t) /\ (FailedLoad(t) \/ (pc[t] = "l_extract" /\ pc'[t] = "l_exit")))
                    => UNCHANGED <<current_pdf_path, prices_cache>>
           /\ <<current_pdf_path, prices_cache>>' # <<current_pdf_path, prices_cache>>
                 => \E t \in Threads :
                       /\ Moves(t)
                       /\ pc[t] \in {"l_pub1", "l_pub2"}
                       /\ state_lock = t
                       /\ loc[t] = extract_prices(arg[t])
                       /\ current_pdf_path' = arg[t]
                       /\ prices_cache' \in {prices_cache, loc[t]}
         ]_vars

\* A load failed after another document had been published, which is still
\* the current one.
C34_Witness ==
    \E t \in Threads :
        /\ pc[t] = "idle"
        /\ ret[t].kind = "load_error"
        /\ current_pdf_path # None
        /\ prices_cache = extract_prices(current_pdf_path)

ReaderPcs == {"h_wait", "h_read", "p_wait", "p_read1", "p_read2", "g_wait", "g_read"}

\* What a reader returns for the document d (None: nothing published).
HealthOf(d) == [kind |-> "health", path |-> d, prices |-> NonePrices]

PricesOf(d) ==
    IF d = None THEN [kind |-> "not_loaded", path |-> None, prices |-> NonePrices]
    ELSE [kind |-> "prices", path |-> d, prices |-> extract_prices(d)]

CachedOf(d) ==
    IF d = None THEN [kind |-> "not_loaded", path |-> None, prices |-> NonePrices]
    ELSE [kind |-> "cached", path |-> None, prices |-> extract_prices(d)]

\* C39: a reader (health, prices) never holds load_lock and needs only
\* state_lock to go on, whoever holds load_lock; what it returns is the
\* document published last (or not-loaded when none was), also while a load
\* is extracting another one; and every reader completes even if loads and
\* exports in progress never finish.
C39_ReadersNeedOnlyStateLock ==
    /\ [](\A t \in Threads :
            /\ pc[t] \in ReaderPcs => load_lock # t
            /\ (pc[t] \in {"h_wait", "p_wait", "g_wait"} /\ state_lock = 0)
                  => ENABLED ReaderStep(t))
    /\ [][\A t \in Threads :
            (pc[t] \in ReaderPcs /\ pc'[t] = "idle")
               => ret'[t] = CASE pc[t] = "h_read" -> HealthOf(lastPub)
                              [] pc[t] = "p_read2" -> PricesOf(lastPub)
                              [] OTHER -> CachedOf(lastPub)]_vars
    /\ \A t \in Threads : (pc[t] \in ReaderPcs) ~> (pc[t] = "idle")

\* A reader is inside its read while a load of another document, holding
\* load_lock, is extracting.
C39_Witness ==
    \E t, u \in Threads :
        /\ pc[t] \in {"h_read", "p_read2"} /\ state_lock = t
        /\ pc[u] = "l_extract" /\ load_lock = u
        /\ lastPub # None /\ arg[u] # lastPub

\* The positions in doc_ops of the operations op on page pg.
OpsAt(op, pg) == {k \in 1..Len(doc_ops) : doc_ops[k].op = op /\ doc_ops[k].page = pg}

\* The pages the page loop works on: those of the requests, in the document.
ProcessedPages ==
    {u_reqs[i].page_num.v : i \in {j \in 1..Len(u_reqs) : PageInDoc(u_reqs[j])}}

\* C35: on every page the add_redact_annot calls come before the one
\* apply_redactions, which clean_contents follows directly, and the text
\* insertions come after both; no page sees apply_redactions twice, and once
\* the page loop has run through every processed page has seen it once.
C35_RedactApplyCleanInsert ==
    /\ \A pg \in 0..(NPages - 1) :
          /\ Cardinality(OpsAt("apply_redactions", pg)) <= 1
          /\ Cardinality(OpsAt("clean_contents", pg)) <= 1
          /\ \A a \in OpsAt("apply_redactions", pg) :
                /\ \A r \in OpsAt("redact", pg) \cup OpsAt("redact_raised", pg) : r < a
                /\ \A c \in OpsAt("clean_contents", pg) : c = a + 1
                /\ \A n \in OpsAt("insert", pg) : a + 1 < n /\ OpsAt("clean_contents", pg) # {}
          /\ OpsAt("insert", pg) # {} => OpsAt("apply_redactions", pg) # {}
          /\ OpsAt("clean_contents", pg) # {} => OpsAt("apply_redactions", pg) # {}
    /\ PagesDone =>
          \A pg \in ProcessedPages : Cardinality(OpsAt("apply_redactions", pg)) = 1

\* Two requests of one page were redacted, the redactions applied once and
\* the two texts inserted.
C35_Witness ==
    /\ PagesDone
    /\ \E pg \in ProcessedPages :
          /\ Cardinality(OpsAt("redact", pg)) = 2
          /\ Cardinality(OpsAt("apply_redactions", pg)) = 1
          /\ Cardinality(OpsAt("insert", pg)) = 2

\* The input file.
InputEntry == Entry(Resolved(u_in))

\* C37: whatever update_prices does, and however it ends, the input file
\* holds what it held before the call.
C37_InputNeverWritten ==
    u_pc # "none" => fs[InputEntry] = fs0[InputEntry]

RedactRaised(i) ==
    \E k \in 1..Len(doc_ops) : doc_ops[k].op = "redact_raised" /\ doc_ops[k].index = i

RedactErrorsOf(i) == {k \in ErrorsOf(i) : u_res.errors[k].code = "redact_value_error"}

\* C38: a request with a recorded redaction error is not listed in updated,
\* and text is inserted for a request only if its redaction annotation was
\* added.
C38_UpdatedOnlyIfRedacted ==
    PagesDone =>
        \A i \in 1..Len(u_reqs) :
            /\ RedactErrorsOf(i) # {} => TimesUpdated(i) = 0
            /\ Inserted(i) => Redacted(i)

(***************************************************************************)
(* The READY line of main (backend.py).                                    *)
(***************************************************************************)
\* The positions of the READY lines on standard output.
ReadyLines == {i \in 1..Len(mn_stdout) : mn_stdout[i].kind = "READY"}

\* The positions of the lines that report a served request.
ServedLines == {i \in 1..Len(mn_stdout) : mn_stdout[i].msg = "log_message"}

\* The token appears in a record passed to the logger.
TokenLogged ==
    \E i \in 1..Len(mn_log) : Secret \in {mn_log[i].msg, mn_log[i].text}

\* C36: the READY:<port>:<token> line is written at most once and, once
\* serve_forever runs, exactly once; when it is written the listener is bound,
\* the token is generated and is the one on the line, and no request was
\* served before it; a run whose bind failed exits without the line; the
\* token is in no record passed to the logger.
C36_ReadyOnceAfterBindAndToken ==
    /\ Cardinality(ReadyLines) <= 1
    /\ \A i \in ReadyLines :
          /\ mn_server = "bound"
          /\ shutdown_token # None
          /\ mn_stdout[i] = ReadyLine(mn_args.port, shutdown_token)
          /\ \A j \in ServedLines : i < j
    /\ (mn_pc = "serving" \/ mn_served > 0) => Cardinality(ReadyLines) = 1
    /\ ServedLines # {} => ReadyLines # {}
    /\ (mn_pc = "exited" /\ mn_server = "none") => (ReadyLines = {} /\ mn_exit = 1)
    /\ ~TokenLogged

\* Two requests were served after the READY line and main returned.
C36_Witness ==
    /\ mn_pc = "exited"
    /\ mn_served = MaxServed
    /\ Cardinality(ReadyLines) = 1
    /\ Cardinality(ServedLines) = MaxServed

(***************************************************************************)
(* The rate limit check and the body of a POST (backend.py).               *)
(***************************************************************************)
\* The rate limiter was asked about the path of the request in hand.
RateCheck == Did("is_allowed", hp_req.path)

\* The steps recorded for the request in hand, and their operations.
TraceSteps == {hp_trace[i] : i \in 1..Len(hp_trace)}

TraceOps == {hp_trace[i].op : i \in 1..Len(hp_trace)}

\* The request in hand left the document state and the locks as they were.
DocumentUntouched ==
    /\ DocumentState = hp_before
    /\ state_lock = 0
    /\ load_lock = 0

\* C31: whatever a GET or POST handler does with a request comes after the
\* rate limiter was asked with the request's path as key; a request the
\* limiter refuses is answered 429 at once, and nothing else is done for it:
\* no body read, no path validation, no lock taken, no route entered, and
\* the document state is as it was.
C31_RateLimitBeforeAnythingElse ==
    /\ [](/\ hp_trace # <<>> => hp_trace[1] = RateCheck
          /\ (hp_pc \notin {"idle", "rate"} \/ hp_resp # NothingSent) => hp_trace # <<>>
          /\ hp_resp = 429 =>
                /\ hp_trace = <<RateCheck>>
                /\ hp_pc = "idle"
                /\ hp_timeout = hp_orig
                /\ DocumentUntouched)
    /\ [][(/\ hp_pc = "rate"
           /\ hp_pc' # "rate"
           /\ ~is_allowed(requests[hp_req.path], clock))
             => (/\ hp_resp' = 429
                 /\ hp_pc' = "idle"
                 /\ UNCHANGED <<storeVars, hp_timeout>>)]_vars

\* A POST with a body is refused by the limiter while a document is loaded.
C31_Witness ==
    /\ hp_pc = "idle"
    /\ hp_resp = 429
    /\ hp_req.method = "POST"
    /\ hp_req.length = 2
    /\ current_pdf_path # None

\* The request in hand is a finished POST that passed the rate limit.
FinishedPost ==
    /\ hp_pc = "idle"
    /\ hp_count > 0
    /\ hp_req.method = "POST"
    /\ hp_resp # 429

\* No route handler ran for the request in hand.
NoRouteRan == TraceOps \cap {"route", "validate_pdf_path", "lock"} = {}

\* C32: a POST declaring more than MAX_REQUEST_BODY_SIZE bytes is answered
\* 413 with no read of the body; a read that times out is answered 408; a
\* body that is not UTF-8 is answered 400; in the three cases no route
\* handler runs and the document state is as it was; and whenever the body
\* read is over, however it ended, the connection has its original timeout.
C32_BodyLimitTimeoutEncoding ==
    /\ FinishedPost =>
          /\ hp_req.length > MAX_REQUEST_BODY_SIZE =>
                (hp_resp = 413 /\ "read" \notin TraceOps /\ NoRouteRan /\ DocumentUntouched)
          /\ Did("read", "socket.timeout") \in TraceSteps =>
                (hp_resp = 408 /\ NoRouteRan /\ DocumentUntouched)
          /\ Did("decode", "UnicodeDecodeError") \in TraceSteps =>
                (hp_resp = 400 /\ NoRouteRan /\ DocumentUntouched)
    /\ hp_pc # "read" => hp_timeout = hp_orig
    /\ hp_pc = "read" => hp_timeout = REQUEST_BODY_READ_TIMEOUT

\* A body read timed out on a connection that has a timeout of its own,
\* while a document is loaded.
C32_Witness ==
    /\ FinishedPost
    /\ hp_resp = 408
    /\ hp_orig = KeepAliveTimeout
    /\ hp_timeout = KeepAliveTimeout
    /\ current_pdf_path # None

(***************************************************************************)
(* The log endpoint (backend.py).                                          *)
(***************************************************************************)
\* The code points of a text.
CodesOf(runs) == {runs[i].code : i \in 1..Len(runs)}

\* The request had a string message and was answered.
StringMessageHandled == lg_out # NotLogged /\ lg_body.kind = "string"

\* C33: for a string message the endpoint answers success and logs one text
\* that holds no control character other than tab and at most max_length
\* characters, the first ones of the sanitized message; when the sanitized
\* message is longer, the note gives the number of its characters beyond
\* max_length.
C33_LogTextSanitizedAndTruncated ==
    StringMessageHandled =>
        /\ lg_out.status = 200
        /\ Len(lg_out.logged) = 1
        /\ \A code \in CodesOf(lg_out.logged[1].message) : IsControl(code) => code = TAB
        /\ RunsLen(lg_out.logged[1].message) <= max_length
        /\ lg_out.logged[1].message = Slice(Sanitized(lg_body.message), max_length)
        /\ lg_out.logged[1].hidden =
              IF RunsLen(Sanitized(lg_body.message)) > max_length
              THEN RunsLen(Sanitized(lg_body.message)) - max_length
              ELSE 0

(***************************************************************************)
(* The availability check (equipment/api.py).                              *)
(***************************************************************************)
\* C40: every row returned by the availability check has
\* 0 <= reserved_items <= total_items and
\* available_items = total_items - reserved_items >= 0.
C40_AvailabilityWithinTotals ==
    \A row \in av_out :
        /\ 0 <= row.reserved_items
        /\ row.reserved_items <= row.total_items
        /\ row.available_items = row.total_items - row.reserved_items
        /\ row.available_items >= 0

====
